---- MODULE Spec2Model ----
(***************************************************************************)
(* Model of the concall summarizer's batch pipeline:                       *)
(*   main.py              StockAnalysisPipeline (run_pipeline, resume      *)
(*                        filter, generate_summaries)                      *)
(*   gemini_manager.py    GeminiManager (key rotation, retry loop)         *)
(*   data_manager.py      DataManager (load_stocks, save_summaries,        *)
(*                        combine_batch_files, cleanup_temp_files)         *)
(*   screener_extractor.py ScreenerExtractor.batch_fetch_transcripts       *)
(*   keywords_manager.py  KeywordsManager (vocabulary, keyword contexts,   *)
(*                        filter_keywords)                                 *)
(*                                                                         *)
(* A string is a sequence of one-character strings, so that lower(),       *)
(* upper() and strip() are computed and not assumed.  A checkpoint file is *)
(* identified by its batch number; its content is its sequence of rows.    *)
(***************************************************************************)
EXTENDS Integers, Sequences, FiniteSets, TLC

\* ------------------------------------------------------------------ bounds
\* number of process runs (a run that was interrupted or that ended is
\* followed by a new process)
MaxRuns == 2
\* transcript links returned for one stock (max_docs_per_stock)
MaxDocs == 1
\* batch sizes the user may enter
MaxBatchSize == 2
\* key-rotation specification: largest quota, largest pool, and the number of
\* generate_summary calls allowed beyond quota * pool
MaxQuota == 2
MaxPool == 2
ExtraCalls == 2
\* longest work queue and longest stock list given to a function on its own
MaxQueue == 3
\* characters of a transcript text given to extract_keyword_context
MaxTextLen == 7
\* largest context_words given to extract_keyword_context
MaxWindow == 2
\* tokens of a transcript text given to analyze_transcript_urls
MaxTokens == 3
\* batch files found in the temp folder by the resume scan
MaxFiles == 2
\* stocks of a slice given to batch_fetch_transcripts on its own
MaxSlice == 4
\* the max_retries argument a ScreenerExtractor is built with (0: not given)
MaxRetriesArg == 4
\* entries of the stock_subset argument of run_pipeline
MaxSubset == 2
\* transcripts of a stock group whose table is built document by document
MaxGroupDocs == 2

\* ------------------------------------------------------- program constants
\* Config.STOCKS_PER_API_KEY
STOCKS_PER_API_KEY == 15
\* len(Config.GEMINI_API_KEYS)
NumApiKeys == 2
\* generate_summary(max_retries=2)
max_retries == 2
\* Config.CONCURRENT_DRIVERS
CONCURRENT_DRIVERS == 3
\* Config.CONTEXT_WORDS
CONTEXT_WORDS == 50
\* Config.MAX_MATCHES_PER_KEYWORD
MAX_MATCHES_PER_KEYWORD == 2

\* ----------------------------------------------------------------- strings
LowerChar(c) ==
  CASE c = "A" -> "a" [] c = "B" -> "b" [] c = "C" -> "c" [] OTHER -> c

UpperChar(c) ==
  CASE c = "a" -> "A" [] c = "b" -> "B" [] c = "c" -> "C" [] OTHER -> c

\* str.lower()
Lower(s) == [k \in 1..Len(s) |-> LowerChar(s[k])]

\* str.upper()
Upper(s) == [k \in 1..Len(s) |-> UpperChar(s[k])]

RECURSIVE LStrip(_)
LStrip(s) == IF s # <<>> /\ Head(s) = " " THEN LStrip(Tail(s)) ELSE s

RECURSIVE RStrip(_)
RStrip(s) ==
  IF s # <<>> /\ s[Len(s)] = " " THEN RStrip(SubSeq(s, 1, Len(s) - 1)) ELSE s

\* str.strip()
Strip(s) == RStrip(LStrip(s))

\* a faulty key that keeps the letter case
norm_keeping_case(s) == Strip(s)

\* str(x).strip().lower(), the comparison key of the resume filter
Norm(s) == Lower(Strip(s))

\* ----------------------------------------------------------- sequence help
Range(s) == {s[k] : k \in 1..Len(s)}

\* pandas unique() / dict insertion order: first occurrences, in order
RECURSIVE Unique(_)
Unique(s) ==
  IF s = <<>> THEN <<>>
  ELSE LET r == Unique(SubSeq(s, 1, Len(s) - 1))
           x == s[Len(s)]
       IN  IF x \in Range(r) THEN r ELSE Append(r, x)

RECURSIVE Flatten(_)
Flatten(ss) == IF ss = <<>> THEN <<>> ELSE Head(ss) \o Flatten(Tail(ss))

Min(a, b) == IF a <= b THEN a ELSE b

Max(a, b) == IF a >= b THEN a ELSE b

\* ------------------------------------------------------- keyword contexts
\* length of the run of non-space characters a string starts with
WordLen(s) ==
  IF \E k \in 1..Len(s) : s[k] = " "
  THEN (CHOOSE k \in 1..Len(s) :
          s[k] = " " /\ \A j \in 1..(k - 1) : s[j] # " ") - 1
  ELSE Len(s)

\* a faulty split that keeps the text in one piece
split_nothing(s) == IF s = << >> THEN << >> ELSE << s >>

\* text.split(): the maximal runs of non-space characters, in order
RECURSIVE split(_)
split(s) ==
  IF s = << >> THEN << >>
  ELSE IF Head(s) = " " THEN split(Tail(s))
  ELSE << SubSeq(s, 1, WordLen(s)) >> \o split(SubSeq(s, WordLen(s) + 1, Len(s)))

\* " ".join(words)
RECURSIVE join(_)
join(words) ==
  IF words = << >> THEN << >>
  ELSE IF Len(words) = 1 THEN Head(words)
  ELSE Head(words) \o << " " >> \o join(Tail(words))

\* keyword in word: the keyword is a substring of the word
contains(word, keyword) ==
  \E k \in 0..(Len(word) - Len(keyword)) :
    SubSeq(word, k + 1, k + Len(keyword)) = keyword

\* start = max(i - context_words, 0), i counted from 0
context_start(i, context_words) == Max(i - context_words, 0)

\* a faulty end of the window, two tokens further
context_end_wide(i, context_words, n) == Min(i + context_words + 2, n)

\* end = min(i + context_words, len(words))
context_end(i, context_words, n) == Min(i + context_words, n)

\* a faulty extraction that returns each distinct snippet once
extract_context_deduplicated(text, keyword, context_words) ==
  LET words == split(text)
      hits == SelectSeq([k \in 1..Len(words) |-> k - 1],
                        LAMBDA i : contains(Lower(words[i + 1]), keyword))
  IN  Unique([h \in 1..Len(hits) |->
               join(SubSeq(words,
                           Max(hits[h] - context_words, 0) + 1,
                           Min(hits[h] + context_words, Len(words))))])

\* KeywordsManager.extract_keyword_context: one snippet per token that
\* holds the keyword, in the order of the tokens
extract_keyword_context(text, keyword, context_words) ==
  LET words == split(text)
      hits == SelectSeq([k \in 1..Len(words) |-> k - 1],
                        LAMBDA i : contains(Lower(words[i + 1]), keyword))
  IN  [h \in 1..Len(hits) |->
        join(SubSeq(words,
                    context_start(hits[h], context_words) + 1,
                    context_end(hits[h], context_words, Len(words))))]

\* ------------------------------------------------------------- vocabulary
\* KeywordsManager.__init__, self.keywords in the order of the source: a
\* keyword in lower case ("revenue"), one stored in upper case ("EBITDA"),
\* one that is listed twice ("buyback"), and between its two entries one that
\* holds another keyword ("margins" in "gross margin")
initial_keywords == << <<"a">>, <<"B">>, <<"c">>, <<"b", "a">>, <<"c">> >>

\* add_keyword: appended when it is not in the list
add_keyword(keywords, keyword) ==
  IF \E k \in 1..Len(keywords) : keywords[k] = keyword
  THEN keywords
  ELSE Append(keywords, keyword)

\* remove_keyword: list.remove takes out the first entry equal to it
remove_keyword(keywords, keyword) ==
  IF \E k \in 1..Len(keywords) : keywords[k] = keyword
  THEN LET first == CHOOSE k \in 1..Len(keywords) :
                      /\ keywords[k] = keyword
                      /\ \A j \in 1..(k - 1) : keywords[j] # keyword
       IN  SubSeq(keywords, 1, first - 1) \o
           SubSeq(keywords, first + 1, Len(keywords))
  ELSE keywords

\* ---------------------------------------------------------- keyword table
\* filter_keywords: the dictionary keyword -> first matches of the lowercased
\* text, as its items in insertion order (a keyword listed twice is one key)
filter_keywords(keywords, text) ==
  LET matches(kw) == extract_keyword_context(Lower(text), kw, CONTEXT_WORDS)
      matched(kw) == matches(kw) # << >>
      keys == Unique(SelectSeq(keywords, matched))
  IN  [k \in 1..Len(keys) |->
        [kw |-> keys[k],
         snippets |-> SubSeq(matches(keys[k]), 1,
                             Min(MAX_MATCHES_PER_KEYWORD, Len(matches(keys[k]))))]]

\* " | ".join(snippets)
RECURSIVE join_bar(_)
join_bar(snippets) ==
  IF snippets = << >> THEN << >>
  ELSE IF Len(snippets) = 1 THEN Head(snippets)
  ELSE Head(snippets) \o << " ", "|", " " >> \o join_bar(Tail(snippets))

\* a cell of a DataFrame created without data
nan_cell == << "NaN" >>

\* DataFrame.fillna(v) on one cell of the table
fillna_cell(cell, v) == IF cell = nan_cell THEN v ELSE cell

\* pd.DataFrame(index=keywords, columns=file_cols).fillna(""): one row per
\* entry of the keyword list, one cell per transcript
new_summary_table(keywords, ndocs) ==
  [k \in 1..Len(keywords) |->
    [index |-> keywords[k],
     cells |-> [j \in 1..ndocs |-> fillna_cell(nan_cell, << >>)]]]

\* summary_table.loc[kw, col] selects more than one row: pd.notna gives a
\* Series, whose truth value raises ValueError
loc_is_series(table, kw) ==
  Cardinality({ k \in 1..Len(table) : table[k].index = kw }) > 1

\* summary_table.loc[kw, file_cols[idx]] = ..., for a label of one row
store_item(table, idx, item) ==
  LET preview == join_bar(item.snippets)
      value(current_val) ==
        IF current_val # nan_cell /\ Strip(current_val) # << >>
        THEN current_val \o << " ", "|", " " >> \o preview
        ELSE preview
  IN  [k \in 1..Len(table) |->
        IF table[k].index = item.kw
        THEN [table[k] EXCEPT !.cells[idx] = value(@)]
        ELSE table[k]]

\* the loop over kw_matches.items(); the ValueError of a label with two rows
\* is caught outside the loop (main.py:77), so the items after it are skipped
RECURSIVE store_matches(_, _, _)
store_matches(table, idx, items) ==
  IF items = << >> THEN table
  ELSE IF loc_is_series(table, Head(items).kw) THEN table
  ELSE store_matches(store_item(table, idx, Head(items)), idx, Tail(items))

\* one transcript of the group: extract_text_from_url gives "" when it fails
\* and nothing is stored for an empty text
analyze_transcript(table, keywords, idx, full_text) ==
  IF full_text = << >> THEN table
  ELSE store_matches(table, idx, filter_keywords(keywords, Lower(full_text)))

\* fillna("-"), reset_index(), summary_table["Stock"] = stock_name
finalize_summary_table(table, stock_name) ==
  [k \in 1..Len(table) |->
    [index |-> table[k].index,
     cells |-> [j \in 1..Len(table[k].cells) |->
                  fillna_cell(table[k].cells[j], << "-" >>)],
     Stock |-> stock_name]]

\* ------------------------------------------------------------- stock file
\* The Stock column of the spreadsheet the pipeline is started with.
StockFiles == { << <<"A">>, <<"b">>, <<"C">> >> }

\* DataManager.load_stocks: Stock.dropna().str.lower().unique()
load_stocks(column) == Unique([k \in 1..Len(column) |-> Lower(column[k])])

\* ------------------------------------------------------------------- state
VARIABLES
  stock_file,          \* Stock column of the spreadsheet
  disk,                \* temp folder: batch number -> rows of that checkpoint
  pc,                  \* position of the process in run_pipeline
  runs,                \* processes started so far
  check_existing,      \* run_pipeline parameter
  save_intermediates,  \* run_pipeline parameter
  batch_size,          \* run_pipeline parameter
  existing_stocks,     \* result of check_existing_summaries
  stock_list,          \* work queue (after the resume filter)
  batch_start,         \* loop variable of the batch loop
  idx,                 \* loop index inside the current phase
  all_transcript_data, \* result of batch_fetch_transcripts
  keyword_df,          \* result of analyze_transcript_urls
  summaries,           \* records built by generate_summaries
  temp_files,          \* checkpoints written by this run
  final_df,            \* value returned by run_pipeline
  current_key_index,   \* GeminiManager
  stocks_processed,    \* GeminiManager
  stocks_per_key,      \* GeminiManager
  num_keys,            \* GeminiManager: len(api_keys)
  attempt,             \* loop variable of generate_summary
  ghist,               \* observations of the GeminiManager
  hist,                \* observations kept for the properties
  call                 \* a function called on its own: arguments and result

vars == << stock_file, disk, pc, runs, check_existing, save_intermediates,
           batch_size, existing_stocks, stock_list, batch_start, idx,
           all_transcript_data, keyword_df, summaries, temp_files, final_df,
           current_key_index, stocks_processed, stocks_per_key, num_keys,
           attempt, ghist, hist, call >>

gemini_vars == << current_key_index, stocks_processed, stocks_per_key,
                  num_keys, attempt, ghist >>

pipe_vars == << stock_file, disk, pc, runs, check_existing, save_intermediates,
                batch_size, existing_stocks, stock_list, batch_start, idx,
                all_transcript_data, keyword_df, summaries, temp_files,
                final_df >>

\* no function is called on its own
NoCall == [fn |-> "none"]

\* None returned by generate_summary
NoResult == "None"

\* what run_pipeline and combine_batch_files return: None, or a DataFrame
\* with these rows
NoFrame == [none |-> TRUE, rows |-> << >>]

DataFrame(rows) == [none |-> FALSE, rows |-> rows]

\* summary strings: response.text, and f"ERROR: {e}"
SummaryText == "summary"
ErrorMarker == "ERROR: e"

\* what extracting one transcript URL can give: an exception or "" ("fail"),
\* a text with no keyword in it, a text with a keyword in it
DocKinds == {"fail", "nomatch", "match"}

\* --------------------------------------------------------------- resume scan
\* a faulty resume scan that reads the lowest-numbered batch file only
check_first_file_only(d) ==
  IF DOMAIN d = {} THEN {}
  ELSE LET f == CHOOSE x \in DOMAIN d : \A y \in DOMAIN d : x <= y
       IN  { d[f][k].Stock : k \in 1..Len(d[f]) }

\* a faulty resume filter that also drops the first entry it should keep
filter_dropping_first(list, existing) ==
  LET keys == { Lower(Strip(x)) : x \in { y \in existing : Strip(y) # <<>> } }
      fresh(x) == Strip(x) # <<>> /\ Lower(Strip(x)) \notin keys
      kept == SelectSeq(list, fresh)
  IN  IF existing = {} \/ kept = << >> THEN kept ELSE Tail(kept)

\* a faulty resume filter that compares the identifiers as they are written
filter_without_normalizing(list, existing) ==
  LET fresh(x) == x \notin existing
  IN  IF existing = {} THEN list ELSE SelectSeq(list, fresh)

\* a faulty resume scan that leaves out the rows whose Summary is an error string
check_skipping_errors(d) ==
  UNION { { d[f][k].Stock : k \in { j \in 1..Len(d[f]) : d[f][j].Summary # ErrorMarker } } :
          f \in DOMAIN d }

\* check_existing_summaries: the Stock values of every batch file of the temp
\* folder, duplicates removed (list(set(...)): only membership is defined)
check_existing_summaries(d) ==
  UNION { { d[f][k].Stock : k \in 1..Len(d[f]) } : f \in DOMAIN d }

\* the body of the loop of check_existing_summaries for one batch file:
\* pd.read_csv raises (caught, file skipped), the frame has no Stock column
\* (file skipped), or its Stock values are collected
batch_file_stocks(file) ==
  IF file.kind = "frame"
  THEN { file.Stock[k] : k \in 1..Len(file.Stock) }
  ELSE {}

\* a faulty scan that gives up when one batch file cannot be used
scan_all_or_nothing(folder) ==
  IF folder.broken \/ \E f \in DOMAIN folder.files : folder.files[f].kind # "frame"
  THEN {}
  ELSE UNION { batch_file_stocks(folder.files[f]) : f \in DOMAIN folder.files }

\* check_existing_summaries on a temp folder that can hold any file: when
\* the folder cannot be listed the outer except returns [], otherwise the
\* Stock values of the usable batch files
scan_temp_folder(folder) ==
  IF folder.broken THEN {}
  ELSE UNION { batch_file_stocks(folder.files[f]) : f \in DOMAIN folder.files }

\* _norm_list: trimmed, lowercased, blanks dropped
norm_list(seq) ==
  LET keep(x) == Strip(x) # <<>>
      kept == SelectSeq(seq, keep)
  IN  [k \in 1..Len(kept) |-> Norm(kept[k])]

\* original_map[key]: the first entry of the list with that key
original_map(list, key) ==
  list[CHOOSE k \in 1..Len(list) :
         /\ Norm(list[k]) = key
         /\ \A j \in 1..(k - 1) : Norm(list[j]) # key]

filter_stocks_to_process(list, existing) ==
  IF existing = {} THEN list
  ELSE LET normalized_existing == { Norm(x) : x \in { y \in existing : Strip(y) # <<>> } }
           fresh(key) == key \notin normalized_existing
           filtered_keys == SelectSeq(norm_list(list), fresh)
       IN  [k \in 1..Len(filtered_keys) |-> original_map(list, filtered_keys[k])]

\* -------------------------------------------------------------- batch slices
\* a faulty slice that starts one entry late
batch_stocks_late ==
  SubSeq(stock_list, batch_start + 2, Min(batch_start + batch_size, Len(stock_list)))

\* stock_list[batch_start : batch_start + batch_size]
batch_stocks ==
  SubSeq(stock_list, batch_start + 1, Min(batch_start + batch_size, Len(stock_list)))

\* a faulty batch number, counted from 0
batch_num_from_zero == batch_start \div batch_size

\* batch_num = batch_start // batch_size + 1
batch_num == (batch_start \div batch_size) + 1

\* -------------------------------------------------------------- match tables
NaN == "NaN"

\* DataFrame.fillna(v) on one cell
fillna(cell, v) == IF cell = NaN THEN v ELSE cell

\* analyze_transcript_urls for one stock group: the row of one keyword, one cell
\* per transcript; created NaN, blanked by fillna(""), filled with the snippets
\* where the text matched, and passed through fillna("-") at the end
summary_table(group, outcomes) ==
  LET created == [j \in 1..group.ndocs |-> fillna(NaN, "")]
      filled == [j \in 1..group.ndocs |->
                   IF outcomes[j] = "match" THEN "snippet" ELSE created[j]]
  IN  [Stock |-> group.Stock,
       cells |-> [j \in 1..group.ndocs |-> fillna(filled[j], "-")]]

\* a faulty cell test that takes a blank cell for evidence
usable_unless_dash(cell) == cell # NaN /\ cell # "-"

\* generate_summaries: a cell is used when it is neither NaN, "-" nor blank
usable(cell) == cell # NaN /\ cell # "-" /\ cell # ""

\* keyword_df["Stock"].unique()
unique_stocks(df) == Unique([k \in 1..Len(df) |-> df[k].Stock])

\* keyword_info.strip() is non-empty for that stock
has_keyword_info(df, stock) ==
  \E k \in 1..Len(df) :
     /\ df[k].Stock = stock
     /\ \E j \in 1..Len(df[k].cells) : usable(df[k].cells[j])

\* ------------------------------------------------------------ GeminiManager
AttemptOutcomes == {"ok", "fail"}

Pending == "pending"

\* GeminiManager.__init__ / a fresh observation record
NewGhist ==
  [rotations |-> 0, calls |-> <<>>, invocations |-> 0, ret |-> NoResult,
   info |-> FALSE, before |-> 0, key |-> 0]

\* _check_and_rotate_key: the condition, and the index it leaves
rotation_due == stocks_processed > 0 /\ stocks_processed % stocks_per_key = 0

\* a faulty rotation that steps past the end of the pool
rotate_without_wrapping ==
  IF rotation_due THEN current_key_index + 1 ELSE current_key_index

check_and_rotate_key ==
  IF rotation_due THEN (current_key_index + 1) % num_keys ELSE current_key_index

\* a faulty counter that counts every attempt
processed_after_every_attempt(outcome) == stocks_processed + 1

\* a faulty loop that goes round again after a first attempt that succeeded
attempt_return_retrying(outcome) ==
  IF attempt = 0 THEN Pending
  ELSE IF outcome = "ok" THEN SummaryText ELSE ErrorMarker

\* generate_summary, the loop body: the counter after an attempt
processed_after(outcome) ==
  IF outcome = "ok" THEN stocks_processed + 1 ELSE stocks_processed

\* generate_summary, the loop body: what the attempt returns (Pending: the loop
\* goes on; None when the loop runs out without a return)
attempt_return(outcome) ==
  IF outcome = "ok" THEN SummaryText
  ELSE IF attempt = 0
       THEN (IF attempt + 1 < max_retries THEN Pending ELSE NoResult)
       ELSE ErrorMarker

\* generate_summary up to the loop: rotate, then return None for blank notes
GenerateSummaryCall(stock, info) ==
  /\ current_key_index' = check_and_rotate_key
  /\ attempt' = 0
  /\ UNCHANGED << stocks_processed, stocks_per_key, num_keys >>
  /\ ghist' = [ghist EXCEPT
                 !.rotations = @ + (IF rotation_due THEN 1 ELSE 0),
                 !.calls = <<>>,
                 !.invocations = @ + 1,
                 !.ret = IF info THEN Pending ELSE NoResult,
                 !.info = info,
                 !.before = stocks_processed,
                 !.key = check_and_rotate_key]

\* generate_summary, one pass of the loop: model.generate_content(prompt);
\* the loop variable is dropped when the call returns
GenerateSummaryAttempt(outcome) ==
  /\ ghist.ret = Pending
  /\ attempt < max_retries
  /\ stocks_processed' = processed_after(outcome)
  /\ attempt' = IF attempt_return(outcome) = Pending THEN attempt + 1 ELSE 0
  /\ UNCHANGED << current_key_index, stocks_per_key, num_keys >>
  /\ ghist' = [ghist EXCEPT
                 !.calls = Append(@, [outcome |-> outcome, key |-> current_key_index]),
                 !.ret = attempt_return(outcome)]

\* --------------------------------------------------------------- run_pipeline
NoPrev ==
  [interrupted |-> FALSE, written |-> << >>, fetched |-> {}, inflight |-> {}]

\* Observations of one run.  start_disk: the temp folder when the run started;
\* fetched: queue entries passed to document retrieval; prompted: stocks the
\* summarizer was called for; blank: (batch, stock) whose table had no cell
\* other than "-", "" or NaN; failed: (batch, stock) whose attempts all failed;
\* written: batch number -> records given to a save that succeeded; prev: for
\* a process that follows an interrupted one, what that one had written and
\* fetched and the slice it was working on when it was killed; found: (batch,
\* stock) for which retrieval gave at least one link; lost: batch number ->
\* records given to a save that failed.
NewHist ==
  [start_disk |-> << >>, fetched |-> {}, prompted |-> {}, blank |-> {},
   failed |-> {}, written |-> << >>, prev |-> NoPrev, found |-> {},
   lost |-> << >>]

\* the locals of a process that has not entered run_pipeline
Idle ==
  /\ pc' = "idle"
  /\ check_existing' = FALSE
  /\ save_intermediates' = FALSE
  /\ batch_size' = 1
  /\ existing_stocks' = {}
  /\ stock_list' = << >>
  /\ batch_start' = 0
  /\ idx' = 1
  /\ all_transcript_data' = << >>
  /\ keyword_df' = << >>
  /\ summaries' = << >>
  /\ temp_files' = << >>
  /\ final_df' = NoFrame
  /\ current_key_index' = 0
  /\ stocks_processed' = 0
  /\ attempt' = 0
  /\ ghist' = NewGhist
  /\ UNCHANGED << stocks_per_key, num_keys >>

Init ==
  /\ stock_file \in StockFiles
  /\ disk = << >>
  /\ pc = "idle"
  /\ runs = 0
  /\ check_existing = FALSE
  /\ save_intermediates = FALSE
  /\ batch_size = 1
  /\ existing_stocks = {}
  /\ stock_list = << >>
  /\ batch_start = 0
  /\ idx = 1
  /\ all_transcript_data = << >>
  /\ keyword_df = << >>
  /\ summaries = << >>
  /\ temp_files = << >>
  /\ final_df = NoFrame
  /\ current_key_index = 0
  /\ stocks_processed = 0
  /\ stocks_per_key = STOCKS_PER_API_KEY
  /\ num_keys = NumApiKeys
  /\ attempt = 0
  /\ ghist = NewGhist
  /\ hist = NewHist
  /\ call = NoCall

\* a faulty write that adds the rows to a file that is already there
write_file_appending(d, f, rows) ==
  [k \in DOMAIN d \cup {f} |->
     IF k # f THEN d[k] ELSE IF f \in DOMAIN d THEN d[f] \o rows ELSE rows]

\* the temp folder with file f written (to_csv creates or replaces the file)
write_file(d, f, rows) ==
  [k \in DOMAIN d \cup {f} |-> IF k = f THEN rows ELSE d[k]]

\* the temp folder with the files of S removed (os.remove)
remove_files(d, S) == [k \in DOMAIN d \ S |-> d[k]]

\* run_pipeline up to the batch loop: the stock list, the resume filter and
\* the early return when nothing is left.  (save_intermediates is read by the
\* merge step only; the model draws it there.)
StartRun ==
  /\ pc = "idle"
  /\ runs < MaxRuns
  /\ runs' = runs + 1
  /\ \E ce \in BOOLEAN, bs \in 1..MaxBatchSize :
       LET loaded == load_stocks(stock_file)
           existing == IF ce THEN check_existing_summaries(disk) ELSE {}
           queue == IF ce THEN filter_stocks_to_process(loaded, existing)
                    ELSE loaded
       IN  /\ check_existing' = ce
           /\ batch_size' = bs
           /\ existing_stocks' = existing
           /\ stock_list' = queue
           /\ pc' = IF queue = << >> THEN "done" ELSE "fetch"
  /\ batch_start' = 0
  /\ idx' = 1
  /\ all_transcript_data' = << >>
  /\ keyword_df' = << >>
  /\ summaries' = << >>
  /\ temp_files' = << >>
  /\ final_df' = NoFrame
  /\ hist' = [hist EXCEPT !.start_disk = disk]
  /\ UNCHANGED << call, stock_file, disk, save_intermediates, gemini_vars >>

\* a faulty loop that goes to the merge step after any batch
NextBatch_merging_early ==
  /\ batch_start' = batch_start + batch_size
  /\ pc' = "merge"
  /\ idx' = 1
  /\ all_transcript_data' = << >>
  /\ keyword_df' = << >>
  /\ summaries' = << >>

\* the batch loop moves on: the next slice, or the merge step after the last
NextBatch ==
  /\ batch_start' = batch_start + batch_size
  /\ pc' = IF batch_start + batch_size < Len(stock_list) THEN "fetch" ELSE "merge"
  /\ idx' = 1
  /\ all_transcript_data' = << >>
  /\ keyword_df' = << >>
  /\ summaries' = << >>

\* a faulty retrieval that returns the groups last stock first
batch_fetch_reversed(stocks, links) ==
  LET found(k) == links[k] > 0
      kept == SelectSeq([k \in 1..Len(stocks) |-> k], found)
  IN  [j \in 1..Len(kept) |->
         [Stock |-> Upper(stocks[kept[Len(kept) + 1 - j]]),
          ndocs |-> links[kept[Len(kept) + 1 - j]]]]

\* a faulty retrieval that appends the result of every stock, empty or not
batch_fetch_keeping_empty(stocks, links) ==
  [j \in 1..Len(stocks) |-> [Stock |-> Upper(stocks[j]), ndocs |-> links[j]]]

\* a faulty retrieval that gives up at the first stock whose page fails
batch_fetch_until_failure(stocks, links) ==
  LET found(k) == \A j \in 1..k : links[j] > 0
      kept == SelectSeq([k \in 1..Len(stocks) |-> k], found)
  IN  [j \in 1..Len(kept) |->
         [Stock |-> Upper(stocks[kept[j]]), ndocs |-> links[kept[j]]]]

\* batch_fetch_transcripts: the stocks of the slice in order; links[k] is the
\* number of transcript links fetch_transcript_links finds for the k-th (none
\* when its page fails), and a stock with no link is not appended
batch_fetch_transcripts(stocks, links) ==
  LET found(k) == links[k] > 0
      kept == SelectSeq([k \in 1..Len(stocks) |-> k], found)
  IN  [j \in 1..Len(kept) |->
         [Stock |-> Upper(stocks[kept[j]]), ndocs |-> links[kept[j]]]]

\* run_pipeline, step 1 of a batch; no links in the whole batch -> continue
FetchBatch ==
  /\ pc = "fetch"
  /\ \E links \in [1..Len(batch_stocks) -> 0..MaxDocs] :
       LET data == batch_fetch_transcripts(batch_stocks, links)
           with_links == { k \in 1..Len(batch_stocks) : links[k] > 0 }
       IN  /\ IF data = << >>
              THEN NextBatch
              ELSE /\ all_transcript_data' = data
                   /\ pc' = "analyze"
                   /\ UNCHANGED << batch_start, idx, keyword_df, summaries >>
           /\ hist' = [hist EXCEPT
                         !.fetched = @ \cup Range(batch_stocks),
                         !.found = @ \cup { <<batch_num, Upper(batch_stocks[k])>> :
                                            k \in with_links }]
  /\ UNCHANGED << call, stock_file, disk, runs, check_existing, save_intermediates,
                  batch_size, existing_stocks, stock_list, temp_files, final_df,
                  gemini_vars >>

\* the claim's notion of a table without usable evidence
blank_table(t) == \A j \in 1..Len(t.cells) : t.cells[j] \in {"-", "", NaN}

\* analyze_transcript_urls: the tables it can build for the groups, one per
\* group in order, over what extraction gives for each transcript
RECURSIVE analyze_transcript_urls(_)
analyze_transcript_urls(data) ==
  IF data = << >> THEN { << >> }
  ELSE { <<t>> \o rest :
           t \in { summary_table(Head(data), o) :
                     o \in [1..Head(data).ndocs -> DocKinds] },
           rest \in analyze_transcript_urls(Tail(data)) }

\* run_pipeline, step 2 of a batch (the concatenation has the keyword rows of
\* every group, so it is never empty here)
AnalyzeBatch ==
  /\ pc = "analyze"
  /\ \E df \in analyze_transcript_urls(all_transcript_data) :
       /\ keyword_df' = df
       /\ hist' = [hist EXCEPT
                     !.blank = @ \cup { <<batch_num, df[k].Stock>> :
                                        k \in { j \in 1..Len(df) : blank_table(df[j]) } }]
  /\ pc' = "summarize"
  /\ idx' = 1
  /\ all_transcript_data' = << >>
  /\ UNCHANGED << call, stock_file, disk, runs, check_existing, save_intermediates,
                  batch_size, existing_stocks, stock_list, batch_start,
                  summaries, temp_files, final_df, gemini_vars >>

\* generate_summaries, one stock: the notes are assembled and generate_summary
\* is entered; blank notes return None and no record is appended
SummarizeStock ==
  /\ pc = "summarize"
  /\ idx <= Len(unique_stocks(keyword_df))
  /\ LET stock == unique_stocks(keyword_df)[idx]
         info == has_keyword_info(keyword_df, stock)
     IN  /\ GenerateSummaryCall(stock, info)
         /\ pc' = IF info THEN "attempt" ELSE "summarize"
         /\ idx' = IF info THEN idx ELSE idx + 1
  /\ UNCHANGED << call, stock_file, disk, runs, check_existing, save_intermediates,
                  batch_size, existing_stocks, stock_list, batch_start,
                  all_transcript_data, keyword_df, summaries, temp_files,
                  final_df, hist >>

\* a faulty append that leaves out the error strings
row_added_unless_error(summary) == summary = SummaryText

\* a returned summary becomes a record when it is truthy
row_added(summary) == summary # NoResult /\ summary # ""

\* generate_summary, one attempt, and the append of generate_summaries when
\* the call returns
SummarizeAttempt ==
  /\ pc = "attempt"
  /\ \E outcome \in AttemptOutcomes :
       LET stock == unique_stocks(keyword_df)[idx]
           ret == attempt_return(outcome)
       IN  /\ GenerateSummaryAttempt(outcome)
           /\ hist' = [hist EXCEPT
                         !.prompted = @ \cup {stock},
                         !.failed = IF ret = ErrorMarker
                                    THEN @ \cup {<<batch_num, stock>>} ELSE @]
           /\ IF ret = Pending
              THEN UNCHANGED << pc, idx, summaries >>
              ELSE /\ pc' = "summarize"
                   /\ idx' = idx + 1
                   /\ summaries' =
                        IF row_added(ret)
                        THEN Append(summaries, [Stock |-> stock, Summary |-> ret])
                        ELSE summaries
  /\ UNCHANGED << call, stock_file, disk, runs, check_existing, save_intermediates,
                  batch_size, existing_stocks, stock_list, batch_start,
                  all_transcript_data, keyword_df, temp_files, final_df >>

\* run_pipeline after generate_summaries: no record -> continue; else
\* save_summaries(records, <prefix><batch_num>.csv): on success the file holds
\* the records and is listed in temp_files, on failure nothing is listed.
\* (The observations of the last generate_summary call end with the batch.)
SaveBatch ==
  /\ pc = "summarize"
  /\ idx > Len(unique_stocks(keyword_df))
  /\ IF summaries = << >>
     THEN UNCHANGED << disk, temp_files, hist >>
     ELSE \E ok \in BOOLEAN :
            IF ok
            THEN /\ disk' = write_file(disk, batch_num, summaries)
                 /\ temp_files' = Append(temp_files, batch_num)
                 /\ hist' = [hist EXCEPT
                               !.written = write_file(@, batch_num, summaries)]
            ELSE /\ UNCHANGED << disk, temp_files >>
                 /\ hist' = [hist EXCEPT
                               !.lost = write_file(@, batch_num, summaries)]
  /\ NextBatch
  /\ ghist' = [NewGhist EXCEPT !.rotations = ghist.rotations,
                               !.invocations = ghist.invocations]
  /\ UNCHANGED << call, stock_file, runs, check_existing, save_intermediates,
                  batch_size, existing_stocks, stock_list, final_df,
                  current_key_index, stocks_processed, stocks_per_key,
                  num_keys, attempt >>

\* os.listdir gives the files in no defined order
Orderings(S) ==
  { s \in [1..Cardinality(S) -> S] :
      \A a, b \in 1..Cardinality(S) : s[a] = s[b] => a = b }

\* a faulty combine that returns None when it is given one file only
combine_two_or_none(d, files) ==
  IF Len(files) < 2 THEN NoFrame
  ELSE DataFrame(Flatten([k \in 1..Len(files) |-> d[files[k]]]))

\* a faulty combine that keeps one row of each stock
combine_dropping_duplicates(d, files) ==
  LET can_read(f) == f \in DOMAIN d
      readable == SelectSeq(files, can_read)
      rows == Flatten([k \in 1..Len(readable) |-> d[readable[k]]])
      first(k) == \A j \in 1..(k - 1) : rows[j].Stock # rows[k].Stock
      kept == SelectSeq([k \in 1..Len(rows) |-> k], first)
  IN  IF readable = << >> THEN NoFrame
      ELSE DataFrame([k \in 1..Len(kept) |-> rows[kept[k]]])

\* combine_batch_files: the rows of every file that can be read, concatenated
\* in the order given; None when no file could be read
combine_batch_files(d, files) ==
  LET can_read(f) == f \in DOMAIN d
      readable == SelectSeq(files, can_read)
  IN  IF readable = << >> THEN NoFrame
      ELSE DataFrame(Flatten([k \in 1..Len(readable) |-> d[readable[k]]]))

\* a faulty merge that takes the other files of the folder in a fresh run too
existing_batch_files_always == DOMAIN disk \ Range(temp_files)

\* run_pipeline, the merge step: the batch files of the temp folder that are
\* not in temp_files, taken only when resuming
existing_batch_files ==
  IF check_existing THEN DOMAIN disk \ Range(temp_files) ELSE {}

\* run_pipeline, the merge step: the files cleanup_temp_files is given
files_to_cleanup(all_temp_files) ==
  IF check_existing THEN temp_files ELSE all_temp_files

\* run_pipeline after the batch loop: combine, clean up, return
Merge ==
  /\ pc = "merge"
  /\ \E listed \in Orderings(existing_batch_files), si \in BOOLEAN :
       LET all_temp_files == temp_files \o listed
           cleanup == files_to_cleanup(all_temp_files)
       IN  /\ save_intermediates' = si
           /\ final_df' = IF all_temp_files # << >>
                          THEN combine_batch_files(disk, all_temp_files)
                          ELSE NoFrame
           /\ disk' = IF all_temp_files # << >> /\ ~si /\ cleanup # << >>
                      THEN remove_files(disk, Range(cleanup))
                      ELSE disk
  /\ pc' = "done"
  /\ UNCHANGED << call, stock_file, runs, check_existing, batch_size,
                  existing_stocks, stock_list, batch_start, idx,
                  all_transcript_data, keyword_df, summaries, temp_files,
                  gemini_vars, hist >>

\* the process is killed before the merge step; the temp folder stays
Interrupt ==
  /\ pc \in {"fetch", "analyze", "summarize", "attempt", "merge"}
  /\ runs < MaxRuns
  /\ Idle
  /\ hist' = [NewHist EXCEPT
                !.prev = [interrupted |-> TRUE,
                          written |-> hist.written,
                          fetched |-> hist.fetched,
                          inflight |-> IF pc = "merge" THEN {}
                                       ELSE Range(batch_stocks)]]
  /\ UNCHANGED << call, stock_file, disk, runs >>

\* run_pipeline has returned and the process ends
Exit ==
  /\ pc = "done"
  /\ runs < MaxRuns
  /\ Idle
  /\ hist' = NewHist
  /\ UNCHANGED << call, stock_file, disk, runs >>

Next ==
  \/ StartRun
  \/ FetchBatch
  \/ AnalyzeBatch
  \/ SummarizeStock
  \/ SummarizeAttempt
  \/ SaveBatch
  \/ Merge
  \/ Interrupt
  \/ Exit

Spec == Init /\ [][Next]_vars

\* ------------------------------------------------- GeminiManager on its own
\* GeminiManager(api_keys, stocks_per_key) driven by an arbitrary sequence of
\* generate_summary calls: with notes or with blank notes, each attempt
\* succeeding or failing.
InitKeys ==
  /\ stock_file \in StockFiles
  /\ disk = << >>
  /\ pc = "gemini"
  /\ runs = 0
  /\ check_existing = FALSE
  /\ save_intermediates = FALSE
  /\ batch_size = 1
  /\ existing_stocks = {}
  /\ stock_list = << >>
  /\ batch_start = 0
  /\ idx = 1
  /\ all_transcript_data = << >>
  /\ keyword_df = << >>
  /\ summaries = << >>
  /\ temp_files = << >>
  /\ final_df = NoFrame
  /\ current_key_index = 0
  /\ stocks_processed = 0
  /\ stocks_per_key \in 1..MaxQuota
  /\ num_keys \in 1..MaxPool
  /\ attempt = 0
  /\ ghist = NewGhist
  /\ hist = NewHist
  /\ call = NoCall

\* generate_summary is entered (no other call is running: single process)
KeysCall ==
  /\ pc = "gemini"
  /\ ghist.ret # Pending
  /\ ghist.invocations < stocks_per_key * num_keys + ExtraCalls
  /\ \E info \in BOOLEAN : GenerateSummaryCall(<<"a">>, info)
  /\ UNCHANGED << pipe_vars, hist, call >>

\* one pass of the retry loop of the running call
KeysAttempt ==
  /\ pc = "gemini"
  /\ \E outcome \in AttemptOutcomes : GenerateSummaryAttempt(outcome)
  /\ UNCHANGED << pipe_vars, hist, call >>

NextKeys ==
  \/ KeysCall
  \/ KeysAttempt

SpecKeys == InitKeys /\ [][NextKeys]_vars

\* ------------------------------------------------------ the batch loop alone
\* the state after construction of what a function called on its own leaves
\* untouched
Constructed ==
  /\ stock_file \in StockFiles
  /\ disk = << >>
  /\ runs = 0
  /\ check_existing = FALSE
  /\ save_intermediates = FALSE
  /\ temp_files = << >>
  /\ final_df = NoFrame
  /\ current_key_index = 0
  /\ stocks_processed = 0
  /\ stocks_per_key = STOCKS_PER_API_KEY
  /\ num_keys = NumApiKeys
  /\ attempt = 0
  /\ ghist = NewGhist
  /\ hist = NewHist

constructed_vars ==
  << stock_file, disk, runs, check_existing, save_intermediates, temp_files,
     final_df, current_key_index, stocks_processed, stocks_per_key, num_keys,
     attempt, ghist, hist >>

\* lowercased stock identifiers, and the work queues made of them (a queue
\* built from stock_subset may name a stock twice)
QueueStocks == { <<"a">>, <<"b">>, <<"c">> }

Queues == UNION { [1..n -> QueueStocks] : n \in 0..MaxQueue }

\* range(0, len(stock_list), batch_size) over any queue and batch size
InitBatches ==
  /\ Constructed
  /\ stock_list \in Queues
  /\ batch_size \in 1..MaxBatchSize
  /\ batch_start = 0
  /\ pc = IF stock_list = << >> THEN "merge" ELSE "fetch"
  /\ existing_stocks = {}
  /\ idx = 1
  /\ all_transcript_data = << >>
  /\ keyword_df = << >>
  /\ summaries = << >>
  /\ call = [fn |-> "batches", batches |-> << >>]

\* one pass of the batch loop: the slice and its number are taken
TakeBatch ==
  /\ call.fn = "batches"
  /\ pc = "fetch"
  /\ call' = [call EXCEPT
                !.batches = Append(@, [num |-> batch_num, stocks |-> batch_stocks])]
  /\ NextBatch
  /\ UNCHANGED << constructed_vars, stock_list, batch_size, existing_stocks >>

NextBatches == TakeBatch

SpecBatches == InitBatches /\ [][NextBatches]_vars

\* ----------------------------------------------- the resume filter alone
\* the locals of run_pipeline while a function is called on its own
NotRunning ==
  /\ pc = "idle"
  /\ batch_size = 1
  /\ existing_stocks = {}
  /\ stock_list = << >>
  /\ batch_start = 0
  /\ idx = 1
  /\ all_transcript_data = << >>
  /\ keyword_df = << >>
  /\ summaries = << >>

\* entries of a stock list: the same identifier in two letter cases and with
\* a space before it, another identifier, and a blank cell
ListEntries == { <<"a">>, <<"A">>, <<" ", "a">>, <<"b">>, <<" ">> }

\* Stock values read from checkpoint files
StockValues == { <<"a">>, <<"B", " ">>, <<" ">> }

InitFilter ==
  /\ Constructed
  /\ NotRunning
  /\ \E n \in 0..MaxQueue :
       \E list \in [1..n -> ListEntries], existing \in SUBSET StockValues :
         call = [fn |-> "filter", list |-> list, existing |-> existing,
                 stage |-> "args", result |-> << >>, again |-> << >>]

\* stock_list = filter_stocks_to_process(stock_list, existing_stocks)
FilterOnce ==
  /\ call.fn = "filter"
  /\ call.stage = "args"
  /\ call' = [call EXCEPT
                !.stage = "once",
                !.result = filter_stocks_to_process(call.list, call.existing)]
  /\ UNCHANGED << constructed_vars, pc, batch_size, existing_stocks,
                  stock_list, batch_start, idx, all_transcript_data,
                  keyword_df, summaries >>

\* the result is filtered again with the same processed stocks
FilterAgain ==
  /\ call.fn = "filter"
  /\ call.stage = "once"
  /\ call' = [call EXCEPT
                !.stage = "twice",
                !.again = filter_stocks_to_process(call.result, call.existing)]
  /\ UNCHANGED << constructed_vars, pc, batch_size, existing_stocks,
                  stock_list, batch_start, idx, all_transcript_data,
                  keyword_df, summaries >>

NextFilter ==
  \/ FilterOnce
  \/ FilterAgain

SpecFilter == InitFilter /\ [][NextFilter]_vars

\* --------------------------------------------- keyword contexts alone
\* characters of a transcript text
TextChars == { "a", "B", " " }

\* keywords searched for: one letter, two letters, one in upper case, and
\* one of two words ("net profit")
ContextKeywords == { <<"b">>, <<"a", "b">>, <<"B">>, <<"a", " ", "b">> }

InitContext ==
  /\ Constructed
  /\ NotRunning
  /\ \E n \in 0..MaxTextLen :
       \E text \in [1..n -> TextChars], keyword \in ContextKeywords,
          context_words \in 0..MaxWindow :
         call = [fn |-> "context", text |-> text, keyword |-> keyword,
                 context_words |-> context_words, stage |-> "args",
                 contexts |-> << >>]

\* contexts = extract_keyword_context(text, keyword, context_words)
ExtractContext ==
  /\ call.fn = "context"
  /\ call.stage = "args"
  /\ call' = [call EXCEPT
                !.stage = "done",
                !.contexts = extract_keyword_context(call.text, call.keyword,
                                                     call.context_words)]
  /\ UNCHANGED << constructed_vars, pc, batch_size, existing_stocks,
                  stock_list, batch_start, idx, all_transcript_data,
                  keyword_df, summaries >>

NextContext == ExtractContext

SpecContext == InitContext /\ [][NextContext]_vars

\* ------------------------------------------------- the vocabulary alone
\* keywords given to add_keyword and remove_keyword: the listed ones and a
\* new one; call.before is the list as it was before the last call
KeywordArgs == { initial_keywords[k] : k \in 1..Len(initial_keywords) } \cup { <<"b">> }

InitKeywords ==
  /\ Constructed
  /\ NotRunning
  /\ call = [fn |-> "keywords", keywords |-> initial_keywords,
             before |-> initial_keywords]

AddKeyword ==
  /\ call.fn = "keywords"
  /\ \E keyword \in KeywordArgs :
       call' = [call EXCEPT !.keywords = add_keyword(@, keyword),
                            !.before = call.keywords]
  /\ UNCHANGED << constructed_vars, pc, batch_size, existing_stocks,
                  stock_list, batch_start, idx, all_transcript_data,
                  keyword_df, summaries >>

RemoveKeyword ==
  /\ call.fn = "keywords"
  /\ \E keyword \in KeywordArgs :
       call' = [call EXCEPT !.keywords = remove_keyword(@, keyword),
                            !.before = call.keywords]
  /\ UNCHANGED << constructed_vars, pc, batch_size, existing_stocks,
                  stock_list, batch_start, idx, all_transcript_data,
                  keyword_df, summaries >>

NextKeywords ==
  \/ AddKeyword
  \/ RemoveKeyword

SpecKeywords == InitKeywords /\ [][NextKeywords]_vars

\* --------------------------------------------- the keyword table alone
\* whitespace-separated tokens of a transcript: one for each keyword of the
\* list, with "B" as the document writes it
DocTokens == { <<"a">>, <<"B">>, <<"c">>, <<"b", "a">> }

\* what extract_text_from_url returns: a text, or "" when extraction failed
DocTexts == { join(tokens) : tokens \in UNION { [1..n -> DocTokens] : n \in 0..MaxTokens } }

\* analyze_transcript_urls for one stock group; call.texts are the texts of
\* the transcripts analysed so far and call.kw_matches what filter_keywords
\* returned for each
InitTable ==
  /\ Constructed
  /\ NotRunning
  /\ \E ndocs \in 1..MaxDocs :
       call = [fn |-> "table", Stock |-> <<"A">>, ndocs |-> ndocs,
               keywords |-> initial_keywords,
               texts |-> << >>, kw_matches |-> << >>, stage |-> "loop",
               table |-> new_summary_table(initial_keywords, ndocs)]

\* one pass of the loop over the transcripts of the group
AnalyzeTranscript ==
  /\ call.fn = "table"
  /\ call.stage = "loop"
  /\ Len(call.texts) < call.ndocs
  /\ \E full_text \in DocTexts :
       call' = [call EXCEPT
                  !.texts = Append(@, full_text),
                  !.kw_matches =
                     Append(@, IF full_text = << >> THEN << >>
                               ELSE filter_keywords(call.keywords, Lower(full_text))),
                  !.table = analyze_transcript(@, call.keywords,
                                               Len(call.texts) + 1, full_text)]
  /\ UNCHANGED << constructed_vars, pc, batch_size, existing_stocks,
                  stock_list, batch_start, idx, all_transcript_data,
                  keyword_df, summaries >>

\* the end of the group: the table is finalized and appended
FinalizeTable ==
  /\ call.fn = "table"
  /\ call.stage = "loop"
  /\ Len(call.texts) = call.ndocs
  /\ call' = [call EXCEPT
                !.stage = "done",
                !.table = finalize_summary_table(@, call.Stock)]
  /\ UNCHANGED << constructed_vars, pc, batch_size, existing_stocks,
                  stock_list, batch_start, idx, all_transcript_data,
                  keyword_df, summaries >>

NextTable ==
  \/ AnalyzeTranscript
  \/ FinalizeTable

SpecTable == InitTable /\ [][NextTable]_vars

\* ------------------------------------------------- the resume scan alone
\* what pd.read_csv makes of a batch file
BatchFiles ==
  { [kind |-> "unreadable"], [kind |-> "nostock"] } \cup
  { [kind |-> "frame", Stock |-> col] :
      col \in { << >>, << <<"A">> >>, << <<"B">> >>,
                << <<"A">>, <<"B">> >>, << <<"A">>, <<"A">> >> } }

\* temp folders: the batch files by number, and whether listing the folder
\* raises
TempFolders ==
  { [broken |-> b, files |-> fs] :
      b \in BOOLEAN,
      fs \in UNION { [S -> BatchFiles] : S \in SUBSET (1..MaxFiles) } }

\* run_pipeline with check_existing=True, up to the start of the batch loop
InitScan ==
  /\ Constructed
  /\ NotRunning
  /\ \E folder \in TempFolders :
       call = [fn |-> "scan", folder |-> folder, stage |-> "args",
               stock_list |-> load_stocks(<< <<"A">>, <<"b">>, <<"C">> >>),
               existing_stocks |-> {}, queue |-> << >>]

\* existing_stocks = self.check_existing_summaries()
ScanFolder ==
  /\ call.fn = "scan"
  /\ call.stage = "args"
  /\ call' = [call EXCEPT
                !.stage = "scanned",
                !.existing_stocks = scan_temp_folder(call.folder)]
  /\ UNCHANGED << constructed_vars, pc, batch_size, existing_stocks,
                  stock_list, batch_start, idx, all_transcript_data,
                  keyword_df, summaries >>

\* stock_list = self.filter_stocks_to_process(stock_list, existing_stocks)
ResumeFilter ==
  /\ call.fn = "scan"
  /\ call.stage = "scanned"
  /\ call' = [call EXCEPT
                !.stage = "filtered",
                !.queue = filter_stocks_to_process(call.stock_list,
                                                   call.existing_stocks)]
  /\ UNCHANGED << constructed_vars, pc, batch_size, existing_stocks,
                  stock_list, batch_start, idx, all_transcript_data,
                  keyword_df, summaries >>

NextScan ==
  \/ ScanFolder
  \/ ResumeFilter

SpecScan == InitScan /\ [][NextScan]_vars

\* ------------------------------------------- the browser sessions alone
\* a faulty choice of session: always the first one
driver_always_first(i) == 0

\* drivers[i % concurrent_drivers]
driver_for(i) == i % CONCURRENT_DRIVERS

\* batch_fetch_transcripts on a slice.  call.drivers: the sessions created,
\* "open" until quit() is called on them; call.i: the index of enumerate;
\* call.log: the calls of fetch_transcript_links so far; call.pending: an
\* exception that is not caught by `except Exception` is on its way out
InitDrivers ==
  /\ Constructed
  /\ NotRunning
  /\ \E n \in 0..MaxSlice :
       \E slice \in [1..n -> { <<"a">>, <<"b">> }] :
         call = [fn |-> "fetch", stock_list |-> slice, stage |-> "create",
                 drivers |-> << >>, i |-> 0, log |-> << >>,
                 all_transcript_data |-> << >>, pending |-> FALSE]

\* drivers = [self.create_driver() for _ in range(concurrent_drivers)]: all
\* sessions are created, or create_driver raises after some were, which
\* leaves the function before its try statement
CreateDrivers ==
  /\ call.fn = "fetch"
  /\ call.stage = "create"
  /\ \E created \in 0..CONCURRENT_DRIVERS :
       call' = [call EXCEPT
                  !.drivers = [d \in 1..created |-> "open"],
                  !.stage = IF created = CONCURRENT_DRIVERS
                            THEN "loop" ELSE "raised"]
  /\ UNCHANGED << constructed_vars, pc, batch_size, existing_stocks,
                  stock_list, batch_start, idx, all_transcript_data,
                  keyword_df, summaries >>

\* one pass of the loop: fetch_transcript_links with the session of the
\* index; it returns its links (none when the page fails), or an exception
\* is caught and the loop continues, or the process is interrupted
FetchStock ==
  /\ call.fn = "fetch"
  /\ call.stage = "loop"
  /\ call.i < Len(call.stock_list)
  /\ LET stock == call.stock_list[call.i + 1]
         used == [i |-> call.i, stock |-> stock, driver |-> driver_for(call.i),
                  state |-> call.drivers[driver_for(call.i) + 1]]
     IN  \/ \E links \in 0..MaxDocs :
              call' = [call EXCEPT
                         !.log = Append(@, used),
                         !.i = @ + 1,
                         !.all_transcript_data =
                            IF links > 0
                            THEN Append(@, [Stock |-> Upper(stock), ndocs |-> links])
                            ELSE @]
         \/ call' = [call EXCEPT !.log = Append(@, used), !.i = @ + 1]
         \/ call' = [call EXCEPT !.log = Append(@, used),
                                 !.stage = "finally", !.pending = TRUE]
  /\ UNCHANGED << constructed_vars, pc, batch_size, existing_stocks,
                  stock_list, batch_start, idx, all_transcript_data,
                  keyword_df, summaries >>

\* the loop is over
EndLoop ==
  /\ call.fn = "fetch"
  /\ call.stage = "loop"
  /\ call.i = Len(call.stock_list)
  /\ call' = [call EXCEPT !.stage = "finally"]
  /\ UNCHANGED << constructed_vars, pc, batch_size, existing_stocks,
                  stock_list, batch_start, idx, all_transcript_data,
                  keyword_df, summaries >>

\* finally: driver.quit() on the next session; what quit() raises is
\* swallowed, and the session counts as closed once quit() was called
QuitDriver ==
  /\ call.fn = "fetch"
  /\ call.stage = "finally"
  /\ \E d \in 1..Len(call.drivers) :
       /\ call.drivers[d] = "open"
       /\ \A e \in 1..(d - 1) : call.drivers[e] = "quit"
       /\ call' = [call EXCEPT !.drivers[d] = "quit"]
  /\ UNCHANGED << constructed_vars, pc, batch_size, existing_stocks,
                  stock_list, batch_start, idx, all_transcript_data,
                  keyword_df, summaries >>

\* return all_transcript_data, or the pending exception leaves the function
ReturnData ==
  /\ call.fn = "fetch"
  /\ call.stage = "finally"
  /\ \A d \in 1..Len(call.drivers) : call.drivers[d] = "quit"
  /\ call' = [call EXCEPT !.stage = IF call.pending THEN "raised" ELSE "returned"]
  /\ UNCHANGED << constructed_vars, pc, batch_size, existing_stocks,
                  stock_list, batch_start, idx, all_transcript_data,
                  keyword_df, summaries >>

NextDrivers ==
  \/ CreateDrivers
  \/ FetchStock
  \/ EndLoop
  \/ QuitDriver
  \/ ReturnData

SpecDrivers == InitDrivers /\ [][NextDrivers]_vars

\* ===================================================================== C1
\* C1: in a run with check_existing = True, no stock whose trimmed,
\* lowercased identifier is in the Stock column of a checkpoint file present
\* when the run started is passed to document retrieval or to the summarizer.
C1_ResumeSkipsRecorded ==
  check_existing =>
    \A s \in hist.fetched \cup hist.prompted :
      \A f \in DOMAIN hist.start_disk :
        \A k \in 1..Len(hist.start_disk[f]) :
          Norm(s) # Norm(hist.start_disk[f][k].Stock)

\* C1, the scenario of the claim: a checkpoint with A, the list [A, b, C] is
\* processed as [b, c], both fetched and one of them summarized
C1_Witness ==
  /\ check_existing
  /\ \E f \in DOMAIN hist.start_disk :
        \E k \in 1..Len(hist.start_disk[f]) :
          hist.start_disk[f][k].Stock = <<"A">>
  /\ stock_list = << <<"b">>, <<"c">> >>
  /\ hist.fetched = { <<"b">>, <<"c">> }
  /\ hist.prompted # {}

\* ===================================================================== C2
\* C2: when a resumed run has gone through the merge step, the returned
\* result holds every row that was in a checkpoint file when the run started
\* and every row of the checkpoints written during the run.
C2_MergeKeepsOldAndNew ==
  (pc = "done" /\ check_existing /\ stock_list # << >>) =>
    /\ \A f \in DOMAIN hist.start_disk :
         \A k \in 1..Len(hist.start_disk[f]) :
           /\ ~final_df.none
           /\ hist.start_disk[f][k] \in Range(final_df.rows)
    /\ \A f \in DOMAIN hist.written :
         \A k \in 1..Len(hist.written[f]) :
           /\ ~final_df.none
           /\ hist.written[f][k] \in Range(final_df.rows)

\* ===================================================================== C3
\* C3: while the batches of a run are processed, every checkpoint file that
\* existed when the run started is still there with the rows it had.
C3_CheckpointsAppendOnly ==
  pc \in {"fetch", "analyze", "summarize", "attempt", "merge"} =>
    \A f \in DOMAIN hist.start_disk :
      /\ f \in DOMAIN disk
      /\ disk[f] = hist.start_disk[f]

\* ===================================================================== C4
\* C4 (as the code has it): when a run is interrupted before the merge step,
\* every checkpoint written by its completed batches is on disk with the
\* records that were saved, and a following resumed run computes a
\* processed-set with every stock recorded in them; the queue of that run is
\* the stock list without the stocks recorded in a checkpoint file, so that no
\* recorded stock is queued again.
C4_InterruptKeepsCheckpoints ==
  /\ pc \in {"fetch", "analyze", "summarize", "attempt", "merge"} =>
       /\ DOMAIN hist.written = Range(temp_files)
       /\ \A f \in Range(temp_files) :
            f \in DOMAIN disk /\ disk[f] = hist.written[f]
  /\ (hist.prev.interrupted /\ pc # "idle") =>
       \A f \in DOMAIN hist.prev.written :
         /\ f \in DOMAIN hist.start_disk
         /\ hist.start_disk[f] = hist.prev.written[f]
  /\ (hist.prev.interrupted /\ pc # "idle" /\ check_existing) =>
       LET recorded ==
             UNION { { hist.start_disk[f][k].Stock :
                         k \in 1..Len(hist.start_disk[f]) } :
                     f \in DOMAIN hist.start_disk }
           loaded == load_stocks(stock_file)
       IN  /\ recorded \subseteq existing_stocks
           /\ Range(stock_list) =
                { s \in Range(loaded) : \A r \in recorded : Norm(s) # Norm(r) }

\* C4: a run that wrote two checkpoints was killed, and the resumed run that
\* follows has both recorded stocks in its processed-set and not in its queue
C4_Witness ==
  /\ hist.prev.interrupted
  /\ check_existing
  /\ pc = "fetch"
  /\ Cardinality(DOMAIN hist.prev.written) = 2
  /\ Cardinality(existing_stocks) = 2
  /\ Len(stock_list) = 1

\* C4 as stated: of the stocks the interrupted run had taken up, only those of
\* the slice in flight are in the queue of the resumed run.
C4_OnlyInFlightRequeued ==
  (hist.prev.interrupted /\ pc # "idle" /\ check_existing) =>
    \A s \in Range(stock_list) :
      s \in hist.prev.fetched => s \in hist.prev.inflight

\* ===================================================================== C5
\* C5, read in the way most favourable to the code (the index is looked at
\* when the next generate_summary call has made its rotation check): with
\* exactly Q successful generations counted the index is 1 mod P, and with
\* exactly Q * P counted it is 0 again, the index the manager starts with.
C5_IndexFollowsCompletions ==
  (ghist.invocations > 0 /\ ghist.before = stocks_processed) =>
    /\ stocks_processed = stocks_per_key =>
         current_key_index = 1 % num_keys
    /\ stocks_processed = stocks_per_key * num_keys =>
         current_key_index = 0

\* ===================================================================== C6
\* C6: over any sequence of generate_summary calls the number of rotations
\* is never more than the number of multiples of the quota that the counter
\* has reached.
C6_OneRotationPerMultiple ==
  ghist.rotations <= stocks_processed \div stocks_per_key

C8_OneOrTwoAttempts ==
  /\ Len(ghist.calls) <= 2
  /\ \A k \in 1..(Len(ghist.calls) - 1) : ghist.calls[k].outcome = "fail"
  /\ (ghist.info /\ ghist.ret # Pending) => Len(ghist.calls) >= 1
  /\ pc \in {"summarize", "attempt"} =>
       \A k \in 1..(idx - 1) :
         LET stock == unique_stocks(keyword_df)[k]
         IN  has_keyword_info(keyword_df, stock) <=> stock \in hist.prompted

\* C8: a stock with evidence was called twice, the first call having failed
\* and the second succeeded
C8_Witness ==
  /\ pc = "summarize"
  /\ ghist.info
  /\ Len(ghist.calls) = 2
  /\ ghist.calls[1].outcome = "fail"
  /\ ghist.calls[2].outcome = "ok"
  /\ ghist.ret = SummaryText

\* ===================================================================== C9
\* C9: a stock with usable evidence whose attempts all failed has exactly one
\* record in its batch, with the error string as its Summary; the checkpoint
\* written for the batch has that record, and so has the final result of a
\* run that wrote the checkpoint.
C9_ErrorRowKept ==
  \A e \in hist.failed :
    LET k == e[1]
        row == [Stock |-> e[2], Summary |-> ErrorMarker]
        once(rows) ==
          Cardinality({ j \in 1..Len(rows) : rows[j].Stock = e[2] }) = 1
    IN  /\ (k = batch_num /\ pc \in {"summarize", "attempt"}) =>
             row \in Range(summaries) /\ once(summaries)
        /\ k \in DOMAIN hist.written =>
             /\ row \in Range(hist.written[k]) /\ once(hist.written[k])
             /\ pc \in {"fetch", "analyze", "summarize", "attempt", "merge"} =>
                  k \in DOMAIN disk /\ disk[k] = hist.written[k]
             /\ pc = "done" =>
                  ~final_df.none /\ row \in Range(final_df.rows)

\* C9: a run has ended whose final result has the error row of a stock, next
\* to the summary of another stock
C9_Witness ==
  /\ pc = "done"
  /\ \E e \in hist.failed :
        /\ e[1] \in DOMAIN hist.written
        /\ ~final_df.none
        /\ [Stock |-> e[2], Summary |-> ErrorMarker] \in Range(final_df.rows)
        /\ \E r \in Range(final_df.rows) : r.Summary = SummaryText

\* ==================================================================== C10
\* C10: a stock whose table has no cell other than "-", blank or missing is
\* not given to the summarizer and has no record in its batch, in the
\* checkpoint of the batch or in the final result.
C10_NoEvidenceNoRow ==
  \A e \in hist.blank :
    LET k == e[1]
        none(rows) == \A j \in 1..Len(rows) : rows[j].Stock # e[2]
    IN  /\ e[2] \notin hist.prompted
        /\ (k = batch_num /\ pc \in {"summarize", "attempt"}) => none(summaries)
        /\ k \in DOMAIN hist.written => none(hist.written[k])
        /\ pc = "done" => none(final_df.rows)

\* C10: a batch of two stocks, one without evidence and one with, has been
\* saved and merged: the final result has the one row
C10_Witness ==
  /\ pc = "done"
  /\ ~final_df.none
  /\ Len(final_df.rows) = 1
  /\ \E e \in hist.blank :
        /\ e[1] \in DOMAIN hist.written
        /\ final_df.rows[1].Stock # e[2]

\* ==================================================================== C11
\* C11: for a queue of n stocks and batch size B >= 1 the batches are the
\* contiguous slices of the queue in order: they are numbered 1, 2, ...,
\* none is empty, each but the last has B stocks, their concatenation is the
\* part of the queue gone through, and at the end of the loop there are
\* ceil(n / B) of them and the concatenation is the whole queue.
C11_BatchesPartitionQueue ==
  call.fn = "batches" =>
    LET b == call.batches
        n == Len(stock_list)
        joined == Flatten([k \in 1..Len(b) |-> b[k].stocks])
    IN  /\ \A k \in 1..Len(b) :
             /\ b[k].num = k
             /\ b[k].stocks # << >>
             /\ Len(b[k].stocks) <= batch_size
             /\ k < Len(b) => Len(b[k].stocks) = batch_size
        /\ Len(joined) <= n
        /\ joined = SubSeq(stock_list, 1, Len(joined))
        /\ pc = "merge" =>
             /\ joined = stock_list
             /\ Len(b) * batch_size >= n
             /\ n > 0 => (Len(b) - 1) * batch_size < n
             /\ n = 0 => Len(b) = 0

\* C11: a queue of three stocks with batch size 2 has given the batches
\* [1, 2] and [3]
C11_Witness ==
  /\ call.fn = "batches"
  /\ pc = "merge"
  /\ Len(stock_list) = 3
  /\ batch_size = 2
  /\ Len(call.batches) = 2
  /\ Len(call.batches[2].stocks) = 1

\* ==================================================================== C12
\* C12: in a fresh run in which every stock has documents, evidence and a
\* summary and no checkpoint write fails, the checkpoints written are those
\* of the batches 1 .. ceil(n / B), one each, and the final result has one
\* row, a summary, for every stock of the stock list and no other row.
C12_FreshRunOneRowPerStock ==
  LET n == Len(stock_list)
      m == (n + batch_size - 1) \div batch_size
      all_good ==
        /\ \A s \in Range(stock_list) :
             \E k \in 1..m : <<k, Upper(s)>> \in hist.found
        /\ hist.blank = {}
        /\ hist.failed = {}
        /\ DOMAIN hist.lost = {}
      rows_of(x) == { j \in 1..Len(final_df.rows) : final_df.rows[j].Stock = Upper(x) }
  IN  (pc = "done" /\ ~check_existing /\ n > 0 /\ all_good) =>
        /\ temp_files = [k \in 1..m |-> k]
        /\ ~final_df.none
        /\ Len(final_df.rows) = Len(stock_file)
        /\ \A i \in 1..Len(stock_file) :
             /\ Cardinality(rows_of(stock_file[i])) = 1
             /\ \A j \in rows_of(stock_file[i]) :
                  final_df.rows[j].Summary = SummaryText

\* C12, the scenario of the claim: the list [A, b, C] with batch size 2, two
\* checkpoints, three rows; the folder held a checkpoint of an earlier run
C12_Witness ==
  /\ pc = "done"
  /\ ~check_existing
  /\ batch_size = 2
  /\ hist.start_disk # << >>
  /\ hist.blank = {} /\ hist.failed = {} /\ DOMAIN hist.lost = {}
  /\ temp_files = <<1, 2>>
  /\ ~final_df.none
  /\ Len(final_df.rows) = 3

C14_CleanupFrame ==
  (pc = "done" /\ stock_list # << >>) =>
    /\ save_intermediates =>
         \A f \in DOMAIN hist.start_disk \cup Range(temp_files) :
           f \in DOMAIN disk
    /\ ~save_intermediates =>
         /\ \A f \in Range(temp_files) : f \notin DOMAIN disk
         /\ \A f \in DOMAIN hist.start_disk \ Range(temp_files) :
              f \in DOMAIN disk
         /\ check_existing =>
              \A f \in DOMAIN hist.start_disk :
                f \in DOMAIN disk /\ disk[f] = hist.start_disk[f]

C16_FailuresAreIsolated ==
  LET here == { e[2] : e \in { x \in hist.found : x[1] = batch_num } }
      handled(e) == e[2] \in hist.prompted \/ e \in hist.blank
  IN  /\ pc = "analyze" =>
           { all_transcript_data[j].Stock :
               j \in 1..Len(all_transcript_data) } = here
      /\ pc \in {"summarize", "attempt"} =>
           /\ { keyword_df[j].Stock : j \in 1..Len(keyword_df) } = here
           /\ \A k \in 1..(idx - 1) :
                handled(<<batch_num, unique_stocks(keyword_df)[k]>>)
           /\ \A e \in hist.failed :
                e[1] = batch_num =>
                  [Stock |-> e[2], Summary |-> ErrorMarker] \in Range(summaries)
      /\ (pc \in {"merge", "done"} /\ stock_list # << >>) =>
           /\ hist.fetched = Range(stock_list)
           /\ \A e \in hist.found : handled(e)
      /\ pc \in {"fetch", "analyze", "summarize", "attempt"} =>
           /\ batch_start < Len(stock_list)
           /\ Range(SubSeq(stock_list, 1, batch_start)) \subseteq hist.fetched

\* C16: a run of three stocks, one whose page failed, one whose document
\* failed and one whose summarization failed, has ended with a final result
C16_Witness ==
  /\ pc = "done"
  /\ Len(stock_list) = 3
  /\ Cardinality(hist.found) = 2
  /\ Cardinality(hist.blank) = 1
  /\ Cardinality(hist.failed) = 1
  /\ ~final_df.none

C18_ResultIsSubsequence ==
  (call.fn = "filter" /\ call.stage # "args") =>
    \E f \in [1..Len(call.result) -> 1..Len(call.list)] :
      /\ \A j \in 1..Len(call.result) : call.result[j] = call.list[f[j]]
      /\ \A i, j \in 1..Len(call.result) : i < j => f[i] < f[j]

\* ==================================================================== C19
\* C19: filtering the result of filter_stocks_to_process again with the same
\* processed stocks gives the same sequence.
C19_FilterIdempotent ==
  (call.fn = "filter" /\ call.stage = "twice") => call.again = call.result

\* C19: a list of three entries was filtered twice; the first pass dropped
\* one entry and kept two
C19_Witness ==
  /\ call.fn = "filter"
  /\ call.stage = "twice"
  /\ Len(call.list) = 3
  /\ Len(call.result) = 2
  /\ call.again = call.result

\* ==================================================================== C20
\* C20: every snippet returned by extract_keyword_context has at most
\* 2W+1 tokens and is words[start:end] of the text's whitespace-separated
\* tokens for some 0 <= start <= end <= len(words).
C20_SnippetWithinWindow ==
  (call.fn = "context" /\ call.stage = "done") =>
    LET words == split(call.text)
    IN  \A h \in 1..Len(call.contexts) :
          LET tokens == split(call.contexts[h])
          IN  /\ Len(tokens) <= 2 * call.context_words + 1
              /\ \E start \in 0..Len(words) : \E end \in start..Len(words) :
                   tokens = SubSeq(words, start + 1, end)

\* C20: a text of four tokens with a window of two; the first and the last
\* token match, the first snippet is cut at the start of the text and the
\* second at its end
C20_Witness ==
  /\ call.fn = "context"
  /\ call.stage = "done"
  /\ call.context_words = 2
  /\ Len(split(call.text)) = 4
  /\ Len(call.contexts) = 2
  /\ Len(split(call.contexts[1])) = 2
  /\ Len(split(call.contexts[2])) = 3

\* ==================================================================== C21
\* C21: the snippet of a match at token position i (counted from 0) of a
\* text of n tokens is the tokens at positions max(i-W, 0) through
\* min(i+W, n-1) inclusive, joined by single spaces; one snippet per match,
\* in the order of the matches.
C21_WindowIsInclusive ==
  (call.fn = "context" /\ call.stage = "done") =>
    LET words == split(call.text)
        n == Len(words)
        W == call.context_words
        matches == { i \in 0..(n - 1) :
                       contains(Lower(words[i + 1]), call.keyword) }
        before(i) == Cardinality({ j \in matches : j < i })
    IN  /\ Len(call.contexts) = Cardinality(matches)
        /\ \A i \in matches :
             LET first == IF i - W >= 0 THEN i - W ELSE 0
                 last == IF i + W <= n - 1 THEN i + W ELSE n - 1
             IN  call.contexts[before(i) + 1] =
                   join(SubSeq(words, first + 1, last + 1))

\* ==================================================================== C22
\* C22: a cell of the keyword table holds the first c snippets of its keyword
\* in its document, joined by " | ", for some c <= MAX_MATCHES_PER_KEYWORD
\* ("-" or nothing when c = 0); when the lowercased text has at least
\* MAX_MATCHES_PER_KEYWORD tokens that contain the keyword, c is
\* MAX_MATCHES_PER_KEYWORD.
C22_CellHoldsFirstMatches ==
  call.fn = "table" =>
    \A j \in 1..Len(call.texts), k \in 1..Len(call.table) :
      LET cell == call.table[k].cells[j]
          found == extract_keyword_context(Lower(call.texts[j]),
                                           call.table[k].index, CONTEXT_WORDS)
          first(c) == join_bar(SubSeq(found, 1, c))
      IN  /\ \/ cell \in { << >>, << "-" >> }
             \/ \E c \in 1..MAX_MATCHES_PER_KEYWORD :
                   c <= Len(found) /\ cell = first(c)
          /\ Len(found) >= MAX_MATCHES_PER_KEYWORD =>
               cell = first(MAX_MATCHES_PER_KEYWORD)

\* ==================================================================== C23
\* C23: the list returned by get_keywords never holds the same string twice,
\* initially and after every add_keyword and remove_keyword, and a call
\* leaves the remaining keywords in their order: the list after a call is
\* the list before it with one entry taken out or with one entry appended.
C23_KeywordsStableNoDuplicates ==
  call.fn = "keywords" =>
    LET old == call.before
        new == call.keywords
    IN  /\ \A i, j \in 1..Len(new) : new[i] = new[j] => i = j
        /\ \/ new = old
           \/ \E k \in 1..Len(old) :
                 new = SubSeq(old, 1, k - 1) \o SubSeq(old, k + 1, Len(old))
           \/ Len(new) = Len(old) + 1 /\ SubSeq(new, 1, Len(old)) = old

\* ==================================================================== C24
\* C24: for every keyword K of the list, in whatever case it is stored, and
\* every transcript, filter_keywords reports K when the transcript has a
\* token t with lowercase(K) a substring of lowercase(t).
C24_MatchIgnoresKeywordCase ==
  call.fn = "table" =>
    \A j \in 1..Len(call.texts), k \in 1..Len(call.keywords) :
      LET tokens == split(call.texts[j])
          K == call.keywords[k]
      IN  (\E t \in 1..Len(tokens) : contains(Lower(tokens[t]), Lower(K))) =>
            \E m \in 1..Len(call.kw_matches[j]) : call.kw_matches[j][m].kw = K

\* ==================================================================== C25
\* C25: in a finalized table no cell is the empty string or missing, every
\* cell of a transcript whose extraction failed and every cell of a keyword
\* that filter_keywords did not report is "-", and the Stock column of every
\* row is the stock of the group.
C25_EmptyCellsHoldDash ==
  (call.fn = "table" /\ call.stage = "done") =>
    \A k \in 1..Len(call.table) :
      /\ call.table[k].Stock = call.Stock
      /\ \A j \in 1..call.ndocs :
           LET cell == call.table[k].cells[j]
               reported == \E m \in 1..Len(call.kw_matches[j]) :
                              call.kw_matches[j][m].kw = call.table[k].index
           IN  /\ cell # << >>
               /\ cell # nan_cell
               /\ (call.texts[j] = << >> \/ ~reported) => cell = << "-" >>

\* ==================================================================== C26
\* C26: the resume scan returns the Stock values of the batch files that can
\* be read and have a Stock column, whatever the other files of the folder
\* are; when the folder cannot be scanned it returns nothing and the queue of
\* the run is the whole stock list.
C26_ScanSkipsBadFiles ==
  (call.fn = "scan" /\ call.stage # "args") =>
    LET files == call.folder.files
        good == { f \in DOMAIN files : files[f].kind = "frame" }
    IN  IF call.folder.broken
        THEN /\ call.existing_stocks = {}
             /\ call.stage = "filtered" => call.queue = call.stock_list
        ELSE call.existing_stocks =
               { s \in { <<"A">>, <<"B">> } :
                   \E f \in good : \E k \in 1..Len(files[f].Stock) :
                     files[f].Stock[k] = s }

\* C26: the folder holds a file that cannot be read and a file with the
\* stock "B"; the scan returned "B" and the queue is the list without "b"
C26_Witness ==
  /\ call.fn = "scan"
  /\ call.stage = "filtered"
  /\ ~call.folder.broken
  /\ DOMAIN call.folder.files = {1, 2}
  /\ call.folder.files[1].kind = "unreadable"
  /\ call.folder.files[2].kind = "frame"
  /\ call.existing_stocks = { <<"B">> }
  /\ call.queue = << <<"a">>, <<"c">> >>

\* ==================================================================== C27
\* C27: after the build, for every transcript whose text was extracted and
\* every keyword of the list with a match in the lowercased text, the cell
\* of that keyword and transcript is not empty.
C27_MatchedKeywordsAreStored ==
  call.fn = "table" =>
    \A j \in 1..Len(call.texts), k \in 1..Len(call.table) :
      LET found == extract_keyword_context(Lower(call.texts[j]),
                                           call.table[k].index, CONTEXT_WORDS)
      IN  (call.texts[j] # << >> /\ found # << >>) =>
            call.table[k].cells[j] \notin { << >>, << "-" >>, nan_cell }

\* ==================================================================== C28
\* C28: extract_keyword_context returns as many snippets as the text has
\* tokens whose lowercase form contains the keyword, the h-th snippet being
\* the window of the h-th such token, overlapping or equal windows included;
\* for an empty text or a keyword that no token contains it returns the empty
\* sequence.
C28_OneSnippetPerMatch ==
  (call.fn = "context" /\ call.stage = "done") =>
    LET words == split(call.text)
        W == call.context_words
        matches == { p \in 1..Len(words) :
                       contains(Lower(words[p]), call.keyword) }
        rank(p) == Cardinality({ q \in matches : q <= p })
        tokens(h) == split(call.contexts[h])
    IN  /\ Len(call.contexts) = Cardinality(matches)
        /\ matches = {} => call.contexts = << >>
        /\ \A p \in matches :
             /\ Len(tokens(rank(p))) <= Len(words)
             /\ \A t \in 1..Len(tokens(rank(p))) :
                  LET q == t + (IF p - 1 - W >= 0 THEN p - 1 - W ELSE 0)
                  IN  q <= Len(words) /\ tokens(rank(p))[t] = words[q]
             /\ W >= 1 => \E t \in 1..Len(tokens(rank(p))) :
                            p = t + (IF p - 1 - W >= 0 THEN p - 1 - W ELSE 0)

\* C28: a text with two matching tokens whose windows are the same tokens;
\* both snippets are returned
C28_Witness ==
  /\ call.fn = "context"
  /\ call.stage = "done"
  /\ call.context_words = 2
  /\ Len(split(call.text)) = 2
  /\ Len(call.contexts) = 2
  /\ call.contexts[1] = call.contexts[2]
  /\ call.contexts[1] # << >>

\* ==================================================================== C29
\* C29: a stock that was passed to retrieval and came back without a
\* document has no group in the retrieved data and no keyword table, is
\* never given to the summarizer, and has no record among the summaries of
\* its batch nor in what is given to save_summaries.
C29_NoDocumentsNoFurtherWork ==
  LET dropped == { Upper(s) : s \in hist.fetched } \ { e[2] : e \in hist.found }
      stocks_of(rows) == { rows[k].Stock : k \in 1..Len(rows) }
  IN  \A d \in dropped :
        /\ d \notin stocks_of(all_transcript_data)
        /\ d \notin stocks_of(keyword_df)
        /\ d \notin hist.prompted
        /\ \A e \in hist.blank \cup hist.failed : e[2] # d
        /\ d \notin stocks_of(summaries)
        /\ \A b \in DOMAIN hist.written : d \notin stocks_of(hist.written[b])
        /\ \A b \in DOMAIN hist.lost : d \notin stocks_of(hist.lost[b])

\* C29: a batch of two stocks in which the first had no document was saved
\* with the record of the second
C29_Witness ==
  /\ pc \in {"fetch", "merge"}
  /\ batch_size = 2
  /\ Len(stock_list) >= 2
  /\ hist.fetched # {}
  /\ <<1, Upper(stock_list[1])>> \notin hist.found
  /\ <<1, Upper(stock_list[2])>> \in hist.found
  /\ 1 \in DOMAIN hist.written
  /\ { hist.written[1][k].Stock : k \in 1..Len(hist.written[1]) } =
       { Upper(stock_list[2]) }

\* ==================================================================== C30
\* C30: the k-th call of fetch_transcript_links of a batch is for the stock
\* at index k-1 of the slice, with session (k-1) mod pool size, which is
\* open; when batch_fetch_transcripts returns, every stock of the slice
\* was retrieved and every session of the pool was closed; and the sessions
\* are closed too when an interruption of the loop leaves the function.
C30_RoundRobinAndClosed ==
  call.fn = "fetch" =>
    /\ \A k \in 1..Len(call.log) :
         /\ call.log[k].i = k - 1
         /\ call.log[k].stock = call.stock_list[k]
         /\ call.log[k].driver = (k - 1) % CONCURRENT_DRIVERS
         /\ call.log[k].state = "open"
    /\ call.stage = "returned" =>
         /\ Len(call.log) = Len(call.stock_list)
         /\ Len(call.drivers) = CONCURRENT_DRIVERS
         /\ \A d \in 1..Len(call.drivers) : call.drivers[d] = "quit"
    /\ (call.stage = "raised" /\ call.pending) =>
         \A d \in 1..Len(call.drivers) : call.drivers[d] = "quit"

\* C30: a slice of four stocks was retrieved, the fourth with the first
\* session again, one stock gave nothing, and the function returned
C30_Witness ==
  /\ call.fn = "fetch"
  /\ call.stage = "returned"
  /\ Len(call.stock_list) = 4
  /\ call.log[4].driver = 0
  /\ Len(call.all_transcript_data) = 3

\* -------------------------------------------- ScreenerExtractor, one URL
\* Config.MAX_RETRIES
MAX_RETRIES == 3

\* str.endswith
endswith(s, suffix) ==
  /\ Len(s) >= Len(suffix)
  /\ SubSeq(s, Len(s) - Len(suffix) + 1, Len(s)) = suffix

\* a faulty test that looks for ".pdf" anywhere in the URL
is_pdf_anywhere(url) ==
  \E k \in 1..Len(url) : k + 3 <= Len(url) /\ SubSeq(url, k, k + 3) = <<".", "p", "d", "f">>

\* url.endswith(".pdf")
is_pdf(url) == endswith(url, <<".", "p", "d", "f">>)

\* self.MAX_RETRIES = max_retries or Config.MAX_RETRIES (None and 0 are falsy)
instance_retries(arg) == IF arg # 0 THEN arg ELSE MAX_RETRIES

\* URLs: a PDF, a page, a page whose name has ".pdf" inside, an upper-case
\* extension, and the bare suffix
Urls ==
  { <<"u", ".", "p", "d", "f">>, <<"u">>, <<".", "p", "d", "f", "u">>,
    <<"u", ".", "P", "D", "F">>, <<".", "p", "d", "f">> }

\* what a download that succeeds extracts: some text, or no text at all
ExtractedTexts == { "text", "" }

\* extract_text_from_url(url) of an extractor built with max_retries = arg
\* (0 stands for None).  call.attempt: the loop variable; call.log: the
\* requests made so far, each with the function that made it
InitExtract ==
  /\ Constructed
  /\ NotRunning
  /\ \E url \in Urls, arg \in 0..MaxRetriesArg :
       call = [fn |-> "extract", url |-> url, MAX_RETRIES |-> instance_retries(arg),
               stage |-> "enter", path |-> "none", attempt |-> 0,
               log |-> << >>, result |-> NoResult]

\* the branch of extract_text_from_url
ChoosePath ==
  /\ call.fn = "extract"
  /\ call.stage = "enter"
  /\ call' = [call EXCEPT !.stage = "loop",
                          !.path = IF is_pdf(call.url) THEN "pdf" ELSE "webpage"]
  /\ UNCHANGED << constructed_vars, pc, batch_size, existing_stocks,
                  stock_list, batch_start, idx, all_transcript_data,
                  keyword_df, summaries >>

\* one pass of `for attempt in range(1, self.MAX_RETRIES + 1)` of
\* extract_text_from_pdf / extract_text_from_webpage: the text is returned,
\* or the exception is swallowed while attempt < MAX_RETRIES and raised at the
\* last attempt, where extract_text_from_url catches it and returns ""
FetchAttempt ==
  /\ call.fn = "extract"
  /\ call.stage = "loop"
  /\ call.attempt < call.MAX_RETRIES
  /\ LET attempt_now == call.attempt + 1
     IN  \/ \E text \in ExtractedTexts :
              call' = [call EXCEPT
                         !.attempt = attempt_now,
                         !.log = Append(@, [path |-> call.path, outcome |-> "ok",
                                            text |-> text]),
                         !.stage = "returned",
                         !.result = text]
         \/ call' = [call EXCEPT
                       !.attempt = attempt_now,
                       !.log = Append(@, [path |-> call.path, outcome |-> "fail",
                                          text |-> ""]),
                       !.stage = IF attempt_now < call.MAX_RETRIES
                                 THEN "loop" ELSE "returned",
                       !.result = IF attempt_now < call.MAX_RETRIES
                                  THEN NoResult ELSE ""]
  /\ UNCHANGED << constructed_vars, pc, batch_size, existing_stocks,
                  stock_list, batch_start, idx, all_transcript_data,
                  keyword_df, summaries >>

NextExtract ==
  \/ ChoosePath
  \/ FetchAttempt

SpecExtract == InitExtract /\ [][NextExtract]_vars

\* ==================================================================== C31
\* C31: for one URL at most MAX_RETRIES requests are made, no request follows
\* one that succeeded, the text of the successful request is what
\* extract_text_from_url returns, after MAX_RETRIES failures it returns the
\* empty string (it never raises), and the requests are made by the PDF
\* function exactly when the URL ends with ".pdf".
C31_BoundedRetriesNoRaise ==
  call.fn = "extract" =>
    LET n == Len(call.log)
        pdf == endswith(call.url, <<".", "p", "d", "f">>)
    IN  /\ n <= call.MAX_RETRIES
        /\ \A k \in 1..n :
             /\ k < n => call.log[k].outcome = "fail"
             /\ call.log[k].path = "pdf" <=> pdf
        /\ call.stage \in {"enter", "loop", "returned"}
        /\ call.stage = "loop" => call.path = "pdf" <=> pdf
        /\ call.stage = "returned" =>
             /\ n >= 1
             /\ IF call.log[n].outcome = "ok"
                THEN call.result = call.log[n].text
                ELSE n = call.MAX_RETRIES /\ call.result = ""

\* C31: a page whose name has ".pdf" inside was requested three times by the
\* webpage function, every request failed, and the empty string came back
C31_Witness ==
  /\ call.fn = "extract"
  /\ call.stage = "returned"
  /\ call.url = <<".", "p", "d", "f", "u">>
  /\ call.MAX_RETRIES = MAX_RETRIES
  /\ Len(call.log) = MAX_RETRIES
  /\ \A k \in 1..Len(call.log) :
       call.log[k].outcome = "fail" /\ call.log[k].path = "webpage"
  /\ call.result = ""

\* ==================================================================== C40
\* C40: with a non-empty pool the index of the credential in use is always
\* inside the pool, the attempts of one generate_summary call are all made
\* with the credential that was current after the call's rotation check, and
\* no step makes stocks_processed smaller.
C40_IndexInPoolSameKeyPerCall ==
  /\ [](num_keys >= 1 =>
          /\ 0 <= current_key_index
          /\ current_key_index < num_keys
          /\ Len(ghist.calls) <= max_retries
          /\ \A k \in 1..Len(ghist.calls) :
               /\ ghist.calls[k].key = ghist.key
               /\ ghist.calls[k].key = ghist.calls[1].key)
  /\ [][stocks_processed' >= stocks_processed]_vars

\* C40: in a pool of two the index has wrapped round to 0, and the call in
\* progress has made its second attempt after a first one that failed
C40_Witness ==
  /\ pc = "gemini"
  /\ num_keys = 2
  /\ ghist.rotations >= 2
  /\ current_key_index = 0
  /\ Len(ghist.calls) = 2
  /\ ghist.calls[1].outcome = "fail"

\* ==================================================================== C39
\* C39: for a keyword that contains whitespace extract_keyword_context
\* returns the empty sequence, whatever the text and the window are, also
\* when the text holds the keyword's words next to each other.
C39_MultiWordKeywordNeverMatches ==
  (/\ call.fn = "context"
   /\ call.stage = "done"
   /\ \E k \in 1..Len(call.keyword) : call.keyword[k] = " ")
  => call.contexts = << >>

\* C39: the text "a B a" holds the two words of the keyword "a b" side by
\* side, and nothing came back
C39_Witness ==
  /\ call.fn = "context"
  /\ call.stage = "done"
  /\ call.keyword = <<"a", " ", "b">>
  /\ call.text = <<"a", " ", "B", " ", "a">>
  /\ call.context_words = 2
  /\ call.contexts = << >>

\* ==================================================================== C37
\* C37: in a run that resumes, a stock that has a row with an error string as
\* Summary in a batch file found at the start is in the processed-set, is
\* not in the work queue, is not passed to retrieval and is not given to the
\* summarizer again.
C37_ErrorRowsAreNotRetried ==
  (check_existing /\ pc # "idle") =>
    \A f \in DOMAIN hist.start_disk :
      \A k \in 1..Len(hist.start_disk[f]) :
        LET row == hist.start_disk[f][k]
        IN  row.Summary = ErrorMarker =>
              /\ row.Stock \in existing_stocks
              /\ \A j \in 1..Len(stock_list) : Norm(stock_list[j]) # Norm(row.Stock)
              /\ \A s \in hist.fetched : Norm(s) # Norm(row.Stock)
              /\ row.Stock \notin hist.prompted

\* C37: a resumed run found a file whose only row is an error row, worked
\* on other stocks and summarized one of them, and reached the merge step
C37_Witness ==
  /\ check_existing
  /\ pc = "merge"
  /\ \E f \in DOMAIN hist.start_disk :
       /\ Len(hist.start_disk[f]) = 1
       /\ hist.start_disk[f][1].Summary = ErrorMarker
       /\ hist.start_disk[f][1].Stock \notin hist.prompted
  /\ hist.prompted # {}
  /\ hist.written # << >>

\* ==================================================================== C33
\* the k-th slice of the work queue, k counted from 1
slice_of(k) ==
  SubSeq(stock_list, (k - 1) * batch_size + 1, Min(k * batch_size, Len(stock_list)))

\* range(0, len(stock_list), batch_size): the number of slices
number_of_slices == (Len(stock_list) + batch_size - 1) \div batch_size

\* the file <prefix>k.csv written in this run holds records of stocks of the
\* k-th slice only, and at least one
file_is_of_its_slice(k) ==
  /\ hist.written[k] # << >>
  /\ \A j \in 1..Len(hist.written[k]) :
       \E i \in 1..Len(slice_of(k)) : hist.written[k][j].Stock = Upper(slice_of(k)[i])

\* C33 as claimed: the file of the k-th slice is <prefix>k.csv, and the
\* numbers of the files written in one run are 1, 2, ..., m with no gap.
C33_FileNumbersContiguous ==
  pc # "idle" =>
    /\ \A k \in DOMAIN hist.written : file_is_of_its_slice(k)
    /\ DOMAIN hist.written = 1..Cardinality(DOMAIN hist.written)

\* C33 amended: the file of the k-th slice is <prefix>k.csv; the numbers of
\* the files written in one run lie in 1..number of slices, are listed in
\* temp_files in increasing order, each once, and a slice whose save failed
\* has no file.
C33_FileNumberIsSliceNumber ==
  pc # "idle" =>
    /\ \A k \in DOMAIN hist.written :
         /\ 1 <= k
         /\ k <= number_of_slices
         /\ file_is_of_its_slice(k)
         /\ k \notin DOMAIN hist.lost
    /\ Range(temp_files) = DOMAIN hist.written
    /\ \A i, j \in 1..Len(temp_files) : i < j => temp_files[i] < temp_files[j]
    /\ pc \in {"fetch", "analyze", "summarize", "attempt"} =>
         /\ batch_num <= number_of_slices
         /\ \A k \in DOMAIN hist.written : k < batch_num

\* C33: the first slice left no file (no link, no record or a failed save)
\* and the second slice was written to <prefix>2.csv
C33_Witness ==
  /\ pc = "merge"
  /\ DOMAIN hist.written = {2}
  /\ temp_files = << 2 >>

\* ------------------------------------------------------ the merge alone
\* the records of a batch file: none (a header only), or one or two, of the
\* same stock or not
CheckpointRows ==
  UNION { [1..n -> { [Stock |-> <<"A">>, Summary |-> SummaryText],
                     [Stock |-> <<"B">>, Summary |-> ErrorMarker] }] : n \in 0..2 }

\* the lists combine_batch_files can be given: file numbers, none twice
MergeLists == UNION { Orderings(S) : S \in SUBSET (1..MaxFiles) }

\* combine_batch_files(temp_files) over a temp folder: call.disk holds the
\* files pd.read_csv can read, a listed file that is not there raises
InitCombine ==
  /\ Constructed
  /\ NotRunning
  /\ \E S \in SUBSET (1..MaxFiles) :
       \E d \in [S -> CheckpointRows], files \in MergeLists :
         call = [fn |-> "combine", disk |-> d, temp_files |-> files,
                 stage |-> "args", result |-> NoFrame]

\* combined_df = combine_batch_files(temp_files)
Combine ==
  /\ call.fn = "combine"
  /\ call.stage = "args"
  /\ call' = [call EXCEPT
                !.stage = "done",
                !.result = IF call.temp_files = << >> THEN NoFrame
                           ELSE combine_batch_files(call.disk, call.temp_files)]
  /\ UNCHANGED << constructed_vars, pc, batch_size, existing_stocks,
                  stock_list, batch_start, idx, all_transcript_data,
                  keyword_df, summaries >>

NextCombine == Combine

SpecCombine == InitCombine /\ [][NextCombine]_vars

\* ==================================================================== C34
\* the number of rows of a sequence of rows that are of the stock
rows_of(rows, stock) == Cardinality({ k \in 1..Len(rows) : rows[k].Stock = stock })

\* C34: the result of combine_batch_files has as many rows as the listed
\* files that can be read have together, and for each stock as many rows as
\* those files have of it together; with no file that can be read it is None.
C34_MergeKeepsEveryRow ==
  (call.fn = "combine" /\ call.stage = "done") =>
    LET readable == { f \in Range(call.temp_files) : f \in DOMAIN call.disk }
        total == Len(Flatten([k \in 1..MaxFiles |->
                                IF k \in readable THEN call.disk[k] ELSE << >>]))
        total_of(stock) ==
          Len(Flatten([k \in 1..MaxFiles |->
                         IF k \in readable
                         THEN SelectSeq(call.disk[k], LAMBDA r : r.Stock = stock)
                         ELSE << >>]))
    IN  IF readable = {}
        THEN call.result = NoFrame
        ELSE /\ call.result # NoFrame
             /\ Len(call.result.rows) = total
             /\ \A stock \in { <<"A">>, <<"B">> } :
                  rows_of(call.result.rows, stock) = total_of(stock)

\* C34: two files that both hold a row of stock A were merged, and the
\* result has both rows
C34_Witness ==
  /\ call.fn = "combine"
  /\ call.stage = "done"
  /\ Len(call.temp_files) = 2
  /\ DOMAIN call.disk = {1, 2}
  /\ \A f \in {1, 2} : rows_of(call.disk[f], <<"A">>) = 1
  /\ rows_of(call.result.rows, <<"A">>) = 2

\* ==================================================================== C35
\* one step of a run leaves the batch and its number as they are
same_batch == batch_start' = batch_start /\ stock_list' = stock_list /\ batch_size' = batch_size

\* one step of a run ends the batch: the next slice starts with retrieval, or
\* the loop is over and the merge step is next
batch_ends ==
  /\ batch_start' = batch_start + batch_size
  /\ stock_list' = stock_list
  /\ batch_size' = batch_size
  /\ all_transcript_data' = << >> /\ keyword_df' = << >> /\ summaries' = << >>
  /\ IF batch_start' < Len(stock_list) THEN pc' = "fetch" ELSE pc' = "merge"

\* C35: within a run the steps of a batch come in the order retrieval,
\* matching, summarizing, checkpoint; the temp folder is written only by the
\* checkpoint step, which ends its batch, and retrieval of the next batch
\* starts only from a step that ends the batch before it (after its
\* checkpoint, or abandoning it); the merge step is entered only from a step
\* that ends the last batch, and once it has run the run does nothing more.
C35_PhasesInOrder ==
  [][ pc' # "idle" =>
        /\ pc = "idle" => pc' \in {"fetch", "done"} /\ batch_start' = 0
        /\ pc = "fetch" => \/ pc' = "analyze" /\ same_batch /\ all_transcript_data' # << >>
                           \/ batch_ends /\ disk' = disk
        /\ pc = "analyze" => pc' = "summarize" /\ same_batch /\ disk' = disk
        /\ pc = "attempt" => pc' \in {"attempt", "summarize"} /\ same_batch /\ disk' = disk
        /\ pc = "summarize" =>
             \/ pc' \in {"attempt", "summarize"} /\ same_batch /\ disk' = disk
             \/ /\ batch_ends
                /\ idx > Len(unique_stocks(keyword_df))
                /\ \/ disk' = disk
                   \/ disk' = write_file(disk, batch_num, summaries)
        /\ pc = "merge" => pc' = "done" /\ batch_start >= Len(stock_list)
        /\ pc = "done" => pc' = "done"
    ]_vars

\* C35: a run of two batches wrote both checkpoints and merged them
C35_Witness ==
  /\ pc = "done"
  /\ batch_size = 1
  /\ Len(stock_list) = 2
  /\ temp_files = << 1, 2 >>
  /\ final_df # NoFrame
  /\ Len(final_df.rows) = 2

\* ------------------------------------ runs whose calls all return or fail
\* A process that is not killed: run_pipeline, and extract_text_from_url for
\* one document, each running to its end.  The code is sequential, and a call
\* to a collaborator that returns or raises lets the next statement run, so
\* a step that can be taken is taken (weak fairness of every step of a run
\* and of an extraction; when a process starts is left open).
InitLive == Init \/ InitExtract

\* batch_fetch_transcripts builds its sessions before its try statement:
\* when webdriver.Chrome raises, the exception leaves batch_fetch_transcripts
\* and run_pipeline, which has no handler around the batch loop
CreateDriverRaises ==
  /\ pc = "fetch"
  /\ pc' = "raised"
  /\ UNCHANGED << call, stock_file, disk, runs, check_existing, save_intermediates,
                  batch_size, existing_stocks, stock_list, batch_start, idx,
                  all_transcript_data, keyword_df, summaries, temp_files,
                  final_df, gemini_vars, hist >>

\* a process enters run_pipeline (not the one the extraction is observed in)
StartProcess ==
  /\ call = NoCall
  /\ StartRun

\* the steps of a run that has started
RunStep ==
  \/ FetchBatch
  \/ CreateDriverRaises
  \/ AnalyzeBatch
  \/ SummarizeStock
  \/ SummarizeAttempt
  \/ SaveBatch
  \/ Merge

NextLive ==
  \/ StartProcess
  \/ Exit
  \/ FetchBatch
  \/ CreateDriverRaises
  \/ AnalyzeBatch
  \/ SummarizeStock
  \/ SummarizeAttempt
  \/ SaveBatch
  \/ Merge
  \/ ChoosePath
  \/ FetchAttempt

SpecLive ==
  /\ InitLive
  /\ [][NextLive]_vars
  /\ WF_vars(RunStep)
  /\ WF_vars(NextExtract)

\* ==================================================================== C36
\* C36: a run that has started reaches the return of run_pipeline (after the
\* merge step, or at once when the queue is empty), whatever its calls do,
\* and an extraction that has started returns; generate_summary is entered at
\* most once per queue entry and makes at most two requests each time, and
\* an extraction makes at most MAX_RETRIES requests.
C36_RunTerminates ==
  /\ [](/\ ghist.invocations <= Len(stock_list)
        /\ Len(ghist.calls) <= 2
        /\ call.fn = "extract" => Len(call.log) <= call.MAX_RETRIES)
  /\ (pc \in {"fetch", "analyze", "summarize", "attempt", "merge"}) ~> (pc = "done")
  /\ (call.fn = "extract") ~> (call.fn = "extract" /\ call.stage = "returned")

\* --------------------------------------------- a fresh run with a subset
\* entries of stock_subset: a listed stock, the same in upper case and with
\* a space before it, another listed stock, one that is not listed, a blank
SubsetEntries == { <<"a">>, <<"A">>, <<" ", "a">>, <<"b">>, <<"x">>, <<" ">> }

StockSubsets == UNION { [1..n -> SubsetEntries] : n \in 1..MaxSubset }

\* run_pipeline, the subset filter: the entries of the subset, trimmed and
\* lowercased, that are names of the stock list, in the order of the subset
apply_stock_subset(list, stock_subset) ==
  LET named == SelectSeq(list, LAMBDA s : Strip(s) # << >>)
      base_set == { Lower(Strip(named[k])) : k \in 1..Len(named) }
      given == SelectSeq(stock_subset, LAMBDA s : Strip(s) # << >>)
      desired == [k \in 1..Len(given) |-> Lower(Strip(given[k]))]
  IN  SelectSeq(desired, LAMBDA s : s \in base_set)

\* run_pipeline(check_existing=False, stock_subset=...) up to the batch
\* loop; no entry of the subset in the stock list -> return None
StartRunSubset ==
  /\ pc = "idle"
  /\ runs < MaxRuns
  /\ runs' = runs + 1
  /\ \E stock_subset \in StockSubsets, bs \in 1..MaxBatchSize :
       LET filtered == apply_stock_subset(load_stocks(stock_file), stock_subset)
       IN  /\ batch_size' = bs
           /\ stock_list' = filtered
           /\ pc' = IF filtered = << >> THEN "done" ELSE "fetch"
  /\ check_existing' = FALSE
  /\ existing_stocks' = {}
  /\ batch_start' = 0
  /\ idx' = 1
  /\ all_transcript_data' = << >>
  /\ keyword_df' = << >>
  /\ summaries' = << >>
  /\ temp_files' = << >>
  /\ final_df' = NoFrame
  /\ hist' = [hist EXCEPT !.start_disk = disk]
  /\ UNCHANGED << call, stock_file, disk, save_intermediates, gemini_vars >>

NextSubset ==
  \/ StartRunSubset
  \/ FetchBatch
  \/ AnalyzeBatch
  \/ SummarizeStock
  \/ SummarizeAttempt
  \/ SaveBatch
  \/ Merge
  \/ Exit

SpecSubset == Init /\ [][NextSubset]_vars

\* ==================================================================== C38
\* C38: the result a fresh run returns has no two rows with the same Stock
\* value, whatever stock_subset was given.
C38_SubsetRunOneRowPerStock ==
  (pc = "done" /\ ~check_existing /\ final_df # NoFrame) =>
    \A i, j \in 1..Len(final_df.rows) :
      final_df.rows[i].Stock = final_df.rows[j].Stock => i = j

\* ------------------------------- a run, and the table of a group of documents
\* what extract_text_from_url gives for a document: "" (it failed), a text
\* with the first keyword in it, a text with no keyword in it
GroupTexts == { << >>, <<"a">>, <<"B">> }

\* analyze_transcript_urls for one stock group of up to MaxGroupDocs documents
InitGroup ==
  /\ Constructed
  /\ NotRunning
  /\ \E ndocs \in 1..MaxGroupDocs :
       call = [fn |-> "table", Stock |-> <<"A">>, ndocs |-> ndocs,
               keywords |-> initial_keywords,
               texts |-> << >>, kw_matches |-> << >>, stage |-> "loop",
               table |-> new_summary_table(initial_keywords, ndocs)]

\* one pass of `for idx, transcript in enumerate(stock_group)`
AnalyzeDocument ==
  /\ call.fn = "table"
  /\ call.stage = "loop"
  /\ Len(call.texts) < call.ndocs
  /\ \E full_text \in GroupTexts :
       call' = [call EXCEPT
                  !.texts = Append(@, full_text),
                  !.kw_matches =
                     Append(@, IF full_text = << >> THEN << >>
                               ELSE filter_keywords(call.keywords, Lower(full_text))),
                  !.table = analyze_transcript(@, call.keywords,
                                               Len(call.texts) + 1, full_text)]
  /\ UNCHANGED << constructed_vars, pc, batch_size, existing_stocks,
                  stock_list, batch_start, idx, all_transcript_data,
                  keyword_df, summaries >>

InitOrder == Init \/ InitGroup

NextOrder ==
  \/ StartProcess
  \/ FetchBatch
  \/ AnalyzeBatch
  \/ SummarizeStock
  \/ SummarizeAttempt
  \/ SaveBatch
  \/ Merge
  \/ Interrupt
  \/ Exit
  \/ AnalyzeDocument
  \/ FinalizeTable

SpecOrder == InitOrder /\ [][NextOrder]_vars

\* ==================================================================== C32
\* the Stock values of a sequence of groups, tables or records
stocks_in_order(rows) == [k \in 1..Len(rows) |-> rows[k].Stock]

\* seq is made of entries of ref, in the order they have in ref
in_order_of(seq, ref) ==
  \E f \in [1..Len(seq) -> 1..Len(ref)] :
    /\ \A i \in 1..Len(seq) : seq[i] = ref[f[i]]
    /\ \A i, j \in 1..Len(seq) : i < j => f[i] < f[j]

\* the stocks of the k-th slice as retrieval names them
slice_names(k) == [i \in 1..Len(slice_of(k)) |-> Upper(slice_of(k)[i])]

\* the snippets filter_keywords returned for the keyword in document j
snippets_of(j, kw) ==
  { join_bar(call.kw_matches[j][m].snippets) :
      m \in { n \in 1..Len(call.kw_matches[j]) : call.kw_matches[j][n].kw = kw } }

\* C32: in a run the retrieved groups, the keyword tables and the summary
\* records of a batch follow the order of the batch's slice of the queue, the
\* stock being summarized is the next one in that order, and the rows of a
\* checkpoint follow the order of its slice; in the table of a group, column j
\* holds nothing but what document j matched, and the columns of documents
\* not yet handled are still blank.
C32_QueueAndDocumentOrder ==
  /\ pc \in {"fetch", "analyze", "summarize", "attempt"} =>
       /\ in_order_of(stocks_in_order(all_transcript_data), slice_names(batch_num))
       /\ in_order_of(unique_stocks(keyword_df), slice_names(batch_num))
       /\ in_order_of(stocks_in_order(summaries),
                      SubSeq(unique_stocks(keyword_df), 1, idx - 1))
       /\ \A b \in DOMAIN hist.written : b < batch_num
  /\ pc # "idle" =>
       \A b \in DOMAIN hist.written :
         in_order_of(stocks_in_order(hist.written[b]), slice_names(b))
  /\ call.fn = "table" =>
       \A k \in 1..Len(call.table) :
         /\ Len(call.table[k].cells) = call.ndocs
         /\ \A j \in 1..call.ndocs :
              LET cell == call.table[k].cells[j]
              IN  IF j <= Len(call.texts)
                  THEN cell \in {<< >>, <<"-">>} \cup snippets_of(j, call.table[k].index)
                  ELSE cell = << >>

\* C32: a batch of two stocks was saved with its two records in the order
\* of the queue
C32_Witness ==
  /\ pc = "merge"
  /\ batch_size = 2
  /\ Len(stock_list) >= 2
  /\ 1 \in DOMAIN hist.written
  /\ stocks_in_order(hist.written[1]) = << Upper(stock_list[1]), Upper(stock_list[2]) >>

====
